---- MODULE Spec2Model ----
(***************************************************************************)
(* Model of buster's recursive file system walker (fileObjectWalker) and   *)
(* its per-file payload (createHashedFile).                                *)
(*                                                                         *)
(* Strings are sequences of one-character strings, so that substring(),    *)
(* extname(), basename(), dirname() and join() are computed the way Node   *)
(* computes them.  A mapping (HashWalkerResult) is a set of <<key, value>> *)
(* pairs holding at most one pair per key.                                 *)
(*                                                                         *)
(* One action is one I/O completion (stat, readdir, the hash stream, the   *)
(* copy/rename) together with every promise callback it triggers: Node     *)
(* drains the microtask queue before it runs the next I/O callback.        *)
(***************************************************************************)
EXTENDS Integers, Sequences, FiniteSets, TLC

VARIABLES config, revision, inv, faults, main, disk, call

vars == <<config, revision, inv, faults, main, disk, call>>

(***************************************************************************)
(* Bounds                                                                  *)
(***************************************************************************)
\* largest number of file system entries (input included) a walk visits
MaxNodes == 4

\* largest number of SIGINTs a run of busterMain receives
MaxSigints == 2

\* largest number of symbolic links on the path of a directory that is
\* still listed
MaxLinks == 2

(***************************************************************************)
(* Strings                                                                 *)
(***************************************************************************)
Min(a, b) == IF a < b THEN a ELSE b

Max(a, b) == IF a > b THEN a ELSE b

Clamp(n, len) == Max(0, Min(n, len))

\* String.prototype.substring(start)
Substring1(s, start) == SubSeq(s, Clamp(start, Len(s)) + 1, Len(s))

\* String.prototype.substring(start, end)
Substring2(s, start, end) ==
  LET a == Clamp(start, Len(s))
      b == Clamp(end, Len(s))
  IN SubSeq(s, Min(a, b) + 1, Max(a, b))

\* String.prototype.lastIndexOf(ch) + 1, 0 when ch does not occur
LastIndexOf(s, ch) ==
  LET hits == {i \in 1..Len(s) : s[i] = ch}
  IN IF hits = {} THEN 0 ELSE CHOOSE i \in hits : \A j \in hits : j <= i

EndsWith(s, suffix) ==
  /\ Len(suffix) <= Len(s)
  /\ SubSeq(s, Len(s) - Len(suffix) + 1, Len(s)) = suffix

Sep == <<"/">>

\* path.basename(p)
basename1(p) == SubSeq(p, LastIndexOf(p, "/") + 1, Len(p))

\* path.extname(p)
extname(p) ==
  LET b == basename1(p)
      dot == LastIndexOf(b, ".")
  IN IF dot <= 1 THEN <<>> ELSE SubSeq(b, dot, Len(b))

\* path.basename(p, ext)
basename(p, ext) ==
  LET b == basename1(p)
  IN IF ext # <<>> /\ b # ext /\ EndsWith(b, ext)
       THEN SubSeq(b, 1, Len(b) - Len(ext))
       ELSE b

\* path.dirname(p)
dirname(p) ==
  LET slash == LastIndexOf(p, "/")
  IN IF slash = 0 THEN <<".">>
     ELSE IF slash = 1 THEN Sep
     ELSE SubSeq(p, 1, slash - 1)

\* path.join(dir, file) for a normalized dir and a plain file name
join(dir, file) ==
  IF dir = <<".">> THEN file
  ELSE IF dir = Sep THEN Sep \o file
  ELSE dir \o Sep \o file

\* path.resolve(dir, file) for an absolute dir and a plain entry name
pathresolve(dir, file) == join(dir, file)

(***************************************************************************)
(* Configuration and environment                                           *)
(***************************************************************************)
\* config.input: the normalized absolute input path "/r"
Input == <<"/", "r">>

\* names a directory listing may contain: "a.js", "b.css", "n.txt"
Names == {<<"a", ".", "j", "s">>, <<"b", ".", "c", "s", "s">>,
          <<"n", ".", "t", "x", "t">>}

\* config.extensions: the default list ["css", "js"]
defaultExtensions == {<<"c", "s", "s">>, <<"j", "s">>}

\* hex digests the hash stream may deliver
Digests == {<<"a", "b", "c", "d">>}

\* config.hashLength as given with --hashLength
HashLengths == {2}

\* config.commonPathLength: -1 (not supplied, left as is for a file input),
\* the value checkConfig computes for a directory input, and a manual
\* override longer than the paths below the input
CommonPathLengths == {-1, Len(Input) + Len(Sep), 8}

\* config.mode
MODE_COPY == "copy"

MODE_RENAME == "rename"

\* the two revisions of the walker/payload pair
\*   "walker":     fileObjectWalker(fileObject, config, payload = createHashedFile),
\*                 the payload resolves to the new filename
\*   "hashwalker": hashWalker(config) = fileObjectWalker(config.input,
\*                 createHashedFile, config), the payload resolves to a mapping
Revisions == {"walker", "hashwalker"}

NoError == [kind |-> "none", op |-> "none", at |-> <<>>]

\* what fs/promises and the streams reject with
ErrnoException(op, path) == [kind |-> "ErrnoException", op |-> op, at |-> path]

BusterHashWalkerError(op, path) ==
  [kind |-> "BusterHashWalkerError", op |-> op, at |-> path]

BusterExtensionFilterError(path) ==
  [kind |-> "BusterExtensionFilterError", op |-> "filter", at |-> path]

BusterHashError(path) == [kind |-> "BusterHashError", op |-> "hash", at |-> path]

BusterFileSystemError(path) ==
  [kind |-> "BusterFileSystemError", op |-> "create", at |-> path]

\* whatever dirname/basename/extname/join throw while the name is derived
ThrownError(path) == [kind |-> "Thrown", op |-> "derive", at |-> path]

(***************************************************************************)
(* Mappings                                                                *)
(***************************************************************************)
Keys(m) == {e[1] : e \in m}

\* Object.assign(target, source): the source's entries overwrite the target's
ObjectAssign(target, source) ==
  {e \in target : e[1] \notin Keys(source)} \cup source

\* the entry keyed by the file's name without its directories
ResultEntry_keyedByBasename(source, destination, cpl) ==
  {<<basename1(source), Substring1(destination, cpl)>>}

\* the entry with a destination that is left absolute
ResultEntry_destinationAbsolute(source, destination, cpl) ==
  {<<Substring1(source, cpl), destination>>}

\* { [source.substring(cpl)]: destination.substring(cpl) }
ResultEntry(source, destination, cpl) ==
  {<<Substring1(source, cpl), Substring1(destination, cpl)>>}

(***************************************************************************)
(* Payload: filter -> hash -> derive name -> materialize                   *)
(***************************************************************************)
\* the filter comparing the extension with its leading dot
filterByExtension_withDot(filename, extensions) ==
  extname(filename) \in extensions

\* TRUE iff filterByExtension resolves, FALSE iff it rejects with
\* BusterExtensionFilterError
filterByExtension(filename, extensions) ==
  Substring1(extname(filename), 1) \in extensions

\* a new filename with one character of the digest too few
determineNewFilename_oneShort(filename, fileHash, hashLength) ==
  join(dirname(filename),
       basename(filename, extname(filename)) \o <<".">>
         \o Substring2(fileHash, 0, hashLength - 1) \o extname(filename))

\* a new filename that carries the whole digest
determineNewFilename_wholeHash(filename, fileHash, hashLength) ==
  join(dirname(filename),
       basename(filename, extname(filename)) \o <<".">>
         \o fileHash \o extname(filename))

\* the new filename: dir/base.<hash[0..hashLength)><ext>
determineNewFilename(filename, fileHash, hashLength) ==
  join(dirname(filename),
       basename(filename, extname(filename)) \o <<".">>
         \o Substring2(fileHash, 0, hashLength) \o extname(filename))

\* one invocation of fileObjectWalker: stat() is already under way
NewInvocation(parent) ==
  [parent |-> parent, pos |-> "stat", kind |-> "unknown",
   state |-> "pending", value |-> {}, error |-> NoError,
   nEntries |-> 0, pending |-> 0, results |-> {},
   plState |-> "none", plName |-> <<>>, plMap |-> {}, plError |-> NoError,
   readdirCalls |-> 0, payloadCalls |-> 0, hashCalls |-> 0, createCalls |-> 0,
   resolveCalls |-> 0, rejectCalls |-> 0]

\* no I/O of invocation p is under way any more
Idle(iv, p) == [iv EXCEPT ![p].pos = "none"]

(***************************************************************************)
(* Promise plumbing of fileObjectWalker                                    *)
(***************************************************************************)
RECURSIVE Resolve(_, _, _)
RECURSIVE Reject(_, _, _)
RECURSIVE ChildResolved(_, _, _)
RECURSIVE ChildRejected(_, _, _)

\* resolve(val) of invocation p: settles the promise if it is still pending
\* and then runs the parent's .then callback
Resolve(iv, p, val) ==
  LET called == [iv EXCEPT ![p].resolveCalls = @ + 1]
      settled == [called EXCEPT ![p].state = "resolved", ![p].value = val]
  IN IF iv[p].state # "pending" THEN called
     ELSE IF iv[p].parent = <<>> THEN settled
     ELSE ChildResolved(settled, iv[p].parent, val)

\* a reject(err) that replaces the error of an already rejected promise
Reject_lastWins(iv, p, err) ==
  LET called == [iv EXCEPT ![p].rejectCalls = @ + 1]
      settled == [called EXCEPT ![p].state = "rejected", ![p].error = err]
  IN IF iv[p].state = "resolved" THEN called
     ELSE IF iv[p].parent = <<>> THEN settled
     ELSE ChildRejected(settled, iv[p].parent, err)

\* reject(err) of invocation p: settles the promise if it is still pending
\* and then runs the parent's .catch callback
Reject(iv, p, err) ==
  LET called == [iv EXCEPT ![p].rejectCalls = @ + 1]
      settled == [called EXCEPT ![p].state = "rejected", ![p].error = err]
  IN IF iv[p].state # "pending" THEN called
     ELSE IF iv[p].parent = <<>> THEN settled
     ELSE ChildRejected(settled, iv[p].parent, err)

\* the join resolving on every child instead of on the last one
ChildResolved_everyChild(iv, q, recResult) ==
  LET merged == ObjectAssign(iv[q].results, recResult)
      left == iv[q].pending - 1
      counted == [iv EXCEPT ![q].results = merged, ![q].pending = left]
  IN Resolve(counted, q, merged)

\* a join that keeps only the mapping of the child that resolved last
ChildResolved_replaces(iv, q, recResult) ==
  LET left == iv[q].pending - 1
      counted == [iv EXCEPT ![q].results = recResult, ![q].pending = left]
  IN IF left = 0 THEN Resolve(counted, q, recResult) ELSE counted

\* .then((recResult) => { results = Object.assign(results, recResult);
\*                        if (--pending === 0) return resolve(results); })
ChildResolved(iv, q, recResult) ==
  LET merged == ObjectAssign(iv[q].results, recResult)
      left == iv[q].pending - 1
      counted == [iv EXCEPT ![q].results = merged, ![q].pending = left]
  IN IF left = 0 THEN Resolve(counted, q, merged) ELSE counted

\* a rejection that calls off what the other children have under way
ChildRejected_cancels(iv, q, err) ==
  Reject([c \in DOMAIN iv |->
            IF iv[c].parent = q THEN [iv[c] EXCEPT !.pos = "none"] ELSE iv[c]],
         q, err)

\* a child's rejection that is swallowed
ChildRejected_swallowed(iv, q, err) == iv

\* .catch((err) => { return reject(err); })
\* a walker that counts a rejected child as one that is done
ChildRejected_counted(iv, q, err) ==
  LET left == iv[q].pending - 1
      rejected == Reject([iv EXCEPT ![q].pending = left], q, err)
  IN IF left = 0 THEN Resolve(rejected, q, rejected[q].results) ELSE rejected

ChildRejected(iv, q, err) == Reject(iv, q, err)

(***************************************************************************)
(* createHashedFile settling, and the walker's file branch                 *)
(***************************************************************************)
\* fileObjectWalker(fileObject, config, payload): the payload resolved with
\* the new filename and the walker builds the entry
\*   resolve({ [fileObject.substring(config.commonPathLength)]:
\*             newFilename.substring(config.commonPathLength) })
WalkerBuildsEntry(iv, p, cfg) ==
  Resolve(iv, p, ResultEntry(p, iv[p].plName, cfg.commonPathLength))

\* fileObjectWalker(fileObjectPath, payload, config): the payload resolved
\* with a mapping (one entry or none), which is the walker's result for a file
WalkerHandsOnMapping(iv, p) == Resolve(iv, p, iv[p].plMap)

\* the file branch of the walker once payload(fileObject, config) resolved
WalkerPayloadResolved(iv, p, cfg, rev) ==
  IF rev = "walker" THEN WalkerBuildsEntry(iv, p, cfg)
  ELSE WalkerHandsOnMapping(iv, p)

\* a file branch that wraps the payload's error like a failed stat
WalkerPayloadRejected_wrapped(iv, p) ==
  Reject(iv, p, BusterHashWalkerError("payload", p))

\* .catch((err) => { return reject(err); })
WalkerPayloadRejected(iv, p) == Reject(iv, p, iv[p].plError)

\* createFile resolved with newFilename: the payload's last .then
PayloadResolved(iv, p, newFilename, cfg, rev) ==
  LET done == [iv EXCEPT ![p].plState = "resolved",
                         ![p].plName = newFilename,
                         ![p].plMap = IF rev = "walker" THEN {}
                                      ELSE ResultEntry(p, newFilename,
                                                       cfg.commonPathLength)]
  IN WalkerPayloadResolved(done, p, cfg, rev)

\* a hard error treated like a filter rejection: the file is skipped
PayloadRejected_skipped(iv, p, err) ==
  Resolve([iv EXCEPT ![p].plState = "resolved"], p, {})

\* the payload's .catch for an error that is not a BusterExtensionFilterError
PayloadRejected(iv, p, err) ==
  WalkerPayloadRejected([iv EXCEPT ![p].plState = "rejected",
                                   ![p].plError = err], p)

\* a materializer that treats every unknown mode as copy
createFile_defaultCopy(iv, p, destination, mode) ==
  [iv EXCEPT ![p].createCalls = @ + 1, ![p].plName = destination,
             ![p].pos = "create"]

\* createFile(source, destination, mode): copyFile or renameFile get under
\* way; any other mode rejects at once with BusterFileSystemError("Unknown
\* mode"), which the payload's .catch hands on
createFile(iv, p, destination, mode) ==
  LET called == [iv EXCEPT ![p].createCalls = @ + 1,
                           ![p].plName = destination]
  IN IF mode \in {MODE_COPY, MODE_RENAME}
       THEN [called EXCEPT ![p].pos = "create"]
       ELSE PayloadRejected(Idle(called, p), p, BusterFileSystemError(p))

\* a filter rejection after which the payload settles in no revision
PayloadFiltered_pending(iv, p, cfg, rev) == iv

\* a materializer that hands the error of copyFile or rename on
createFileRejected_unwrapped(iv, p, err) ==
  PayloadRejected(Idle(iv, p), p, err)

\* copyFile / renameFile: .catch((err) => { return reject(new
\* BusterFileSystemError("Could not copy/rename file")); }), handed on by
\* createFile and by the payload's .catch
createFileRejected(iv, p, err) ==
  PayloadRejected(Idle(iv, p), p, BusterFileSystemError(p))

\* the payload's .catch for a BusterExtensionFilterError:
\*   "walker":     if (!(err instanceof BusterExtensionFilterError)) return reject(err);
\*                 neither resolve nor reject is called
\*   "hashwalker": return resolve({})
PayloadFiltered(iv, p, cfg, rev) ==
  IF rev = "walker" THEN iv
  ELSE WalkerPayloadResolved([iv EXCEPT ![p].plState = "resolved",
                                        ![p].plMap = {}], p, cfg, rev)

\* a payload that hashes whatever the filter says
PayloadStart_noFilter(iv, p, cfg, rev) ==
  [iv EXCEPT ![p].payloadCalls = @ + 1, ![p].plState = "pending",
             ![p].pos = "hash", ![p].hashCalls = @ + 1]

\* payload(fileObject, config): filterByExtension, then hashFileContent
PayloadStart(iv, p, cfg, rev) ==
  LET called == [iv EXCEPT ![p].payloadCalls = @ + 1, ![p].plState = "pending"]
  IN IF filterByExtension(p, cfg.extensions)
       THEN [called EXCEPT ![p].pos = "hash", ![p].hashCalls = @ + 1]
       ELSE PayloadFiltered(called, p, cfg, rev)

(***************************************************************************)
(* busterMain: getConfig -> checkConfig -> hashWalker -> createManifestFile *)
(***************************************************************************)
EXIT_SUCCESS == 0

EXIT_PROCESSING_ERROR == 10

EXIT_INTERNAL_ERROR == 70

EXIT_CONFIG_ERROR == 78

EXIT_SIGINT == 130

\* the two revisions of busterMain
\*   "main.ts":  resolves once hashWalker resolved; its catch handles nothing
\*               but a BusterConfigError
\*   "manifest": hands the result to createManifestFile; its catch maps every
\*               error to an exit code
MainRevisions == {"main.ts", "manifest"}

defaultHashLength == 10

\* "asset-manifest.json"
defaultOutFile ==
  <<"a", "s", "s", "e", "t", "-", "m", "a", "n", "i", "f", "e", "s", "t",
    ".", "j", "s", "o", "n">>

\* process.cwd()
Cwd == <<"/">>

\* new BusterConfigError(message)
BusterConfigError(message) ==
  [kind |-> "BusterConfigError", op |-> message, at |-> <<>>]

\* what getopt throws
GetoptError == [kind |-> "Error", op |-> "getConfig", at |-> <<>>]

BusterManifestError(path) ==
  [kind |-> "BusterManifestError", op |-> "manifest", at |-> path]

\* the BusterConfig before getConfig has resolved
NoConfig ==
  [input |-> <<>>, extensions |-> {}, hashLength |-> 0,
   commonPathLength |-> -1, mode |-> "", outFile |-> <<>>]

\* the value of one digit character
DigitValue(c) ==
  CASE c = "0" -> 0 [] c = "1" -> 1 [] c = "2" -> 2 [] c = "3" -> 3
    [] c = "4" -> 4 [] c = "5" -> 5 [] c = "6" -> 6 [] c = "7" -> 7
    [] c = "8" -> 8 [] c = "9" -> 9

IsDigit(c) == c \in {"0", "1", "2", "3", "4", "5", "6", "7", "8", "9"}

\* the longest prefix of s that consists of decimal digits
DigitPrefix(s) ==
  LET stops == {i \in 1..Len(s) : ~IsDigit(s[i])}
  IN IF stops = {} THEN s
     ELSE SubSeq(s, 1, (CHOOSE i \in stops : \A j \in stops : i <= j) - 1)

RECURSIVE DigitsValue(_)
\* the number a string of decimal digits denotes
DigitsValue(s) ==
  IF Len(s) = 0 THEN 0
  ELSE 10 * DigitsValue(SubSeq(s, 1, Len(s) - 1)) + DigitValue(s[Len(s)])

\* a parseInt that counts the leading digits
parseInt_countsDigits(s) == Len(DigitPrefix(s))

\* parseInt(s): the number the leading decimal digits of s denote, whatever
\* follows them; for a string without a leading digit parseInt is NaN, which
\* String.prototype.substring takes for 0
parseInt(s) == DigitsValue(DigitPrefix(s))

\* cmdLineParams.extension: a string for one --extension, a list for several
ExtensionString(e) == [isString |-> TRUE, string |-> e, list |-> {}]

ExtensionList(l) == [isString |-> FALSE, string |-> <<>>, list |-> l]

\* a resolve that keeps trailing separators
normalizedResolve_keepsTrailing(p) ==
  IF p # <<>> /\ p[1] = "/" THEN p ELSE join(Cwd, p)

\* path.resolve(p) followed by path.normalize: a relative path is resolved
\* against the working directory, trailing separators are dropped
normalizedResolve(p) ==
  LET absolute == IF p # <<>> /\ p[1] = "/" THEN p ELSE join(Cwd, p)
      RECURSIVE Strip(_)
      Strip(q) == IF Len(q) > 1 /\ q[Len(q)] = "/"
                    THEN Strip(SubSeq(q, 1, Len(q) - 1))
                    ELSE q
  IN Strip(absolute)

\* a getConfig that takes the working directory for a missing input and the
\* mode copy whatever --mode says
getConfig_lenient(argv) ==
  IF argv.getopt = "throws" THEN [ok |-> FALSE, error |-> GetoptError]
  ELSE IF argv.getopt = "null"
    THEN [ok |-> FALSE,
          error |-> BusterConfigError("Could not parse command line parameters")]
  ELSE [ok |-> TRUE,
        config |->
          [commonPathLength |-> IF argv.commonPathLength.given
                                  THEN argv.commonPathLength.value ELSE -1,
           extensions |-> IF ~argv.extension.given THEN defaultExtensions
                          ELSE IF argv.extension.value.isString
                            THEN {argv.extension.value.string}
                          ELSE argv.extension.value.list,
           hashLength |-> IF argv.hashLength.given
                            THEN parseInt(argv.hashLength.value)
                            ELSE defaultHashLength,
           input |-> IF argv.input.given THEN argv.input.value ELSE Cwd,
           mode |-> MODE_COPY,
           outFile |-> IF argv.outFile.given
                         THEN argv.outFile.value ELSE defaultOutFile]]

\* getConfig(argv): the promise's outcome for the parameters getopt returned
getConfig(argv) ==
  IF argv.getopt = "throws" THEN [ok |-> FALSE, error |-> GetoptError]
  ELSE IF argv.getopt = "null"
    THEN [ok |-> FALSE,
          error |-> BusterConfigError("Could not parse command line parameters")]
  ELSE IF ~argv.input.given
    THEN [ok |-> FALSE, error |-> BusterConfigError("Missing parameter input")]
  ELSE [ok |-> TRUE,
        config |->
          [commonPathLength |-> IF argv.commonPathLength.given
                                  THEN argv.commonPathLength.value ELSE -1,
           extensions |-> IF ~argv.extension.given THEN defaultExtensions
                          ELSE IF argv.extension.value.isString
                            THEN {argv.extension.value.string}
                          ELSE argv.extension.value.list,
           hashLength |-> IF argv.hashLength.given
                            THEN parseInt(argv.hashLength.value)
                            ELSE defaultHashLength,
           input |-> argv.input.value,
           mode |-> IF argv.mode.given THEN argv.mode.value ELSE MODE_COPY,
           outFile |-> IF argv.outFile.given
                         THEN argv.outFile.value ELSE defaultOutFile]]

\* a checkConfig that counts no separator and puts a bare outFile next to
\* the input
checkConfig_besideInput(cfg, inputIsDirectory, access) ==
  LET normalizedInput == normalizedResolve(cfg.input)
      normalizedOutFile ==
        IF cfg.outFile = basename1(cfg.outFile)
          THEN pathresolve(dirname(normalizedInput), cfg.outFile)
          ELSE normalizedResolve(cfg.outFile)
  IN IF access # "ok"
       THEN [ok |-> FALSE, error |-> BusterConfigError("checkConfig")]
       ELSE [ok |-> TRUE,
             config |-> [cfg EXCEPT !.commonPathLength =
                                      IF @ = -1 /\ inputIsDirectory
                                        THEN Len(normalizedInput) ELSE @,
                                    !.input = normalizedInput,
                                    !.outFile = normalizedOutFile]]

\* checkConfig(config): inputIsDirectory is what existsSync/lstatSync say of
\* the input, access is "ok" unless one of the two accessSync calls throws
checkConfig(cfg, inputIsDirectory, access) ==
  LET normalizedInput == normalizedResolve(cfg.input)
      normalizedCommonPathLength ==
        IF cfg.commonPathLength = -1 /\ inputIsDirectory
          THEN Len(normalizedInput) + Len(Sep)
          ELSE cfg.commonPathLength
      normalizedOutFile ==
        IF cfg.outFile = basename1(cfg.outFile)
          THEN IF inputIsDirectory
                 THEN pathresolve(normalizedInput, cfg.outFile)
                 ELSE pathresolve(dirname(normalizedInput), cfg.outFile)
          ELSE normalizedResolve(cfg.outFile)
  IN IF access = "input"
       THEN [ok |-> FALSE,
             error |-> BusterConfigError(
                         "The specified input can not be read/written to")]
     ELSE IF access = "outFile"
       THEN [ok |-> FALSE,
             error |-> BusterConfigError(
                         "The specified output file can not be read/written to")]
       ELSE [ok |-> TRUE,
             config |-> [cfg EXCEPT !.commonPathLength =
                                      normalizedCommonPathLength,
                                    !.input = normalizedInput,
                                    !.outFile = normalizedOutFile]]

\* the promise busterMain returns, and what its chain has done so far
NewMain(rev, argv) ==
  [revision |-> rev, argv |-> argv, pos |-> "argv", state |-> "pending",
   code |-> -1, error |-> NoError, calls |-> <<>>, settleCalls |-> <<>>,
   writeArgs |-> <<>>, manifest |-> "none", manifestValue |-> "none",
   manifestError |-> NoError,
   run |-> 1, manifests |-> <<>>]

\* no busterMain around the walk
NoMain == [NewMain("none", <<>>) EXCEPT !.pos = "none"]

\* resolve(code) of busterMain's promise
MainResolve(m, c) ==
  LET called == [m EXCEPT !.settleCalls = Append(@, <<"resolve", c>>)]
  IN IF m.state # "pending" THEN called
     ELSE [called EXCEPT !.state = "resolved", !.code = c]

\* a reject(code) that replaces the code of a settled promise
MainReject_overrides(m, c) ==
  [m EXCEPT !.settleCalls = Append(@, <<"reject", c>>),
            !.state = "rejected", !.code = c]

\* reject(code) of busterMain's promise
MainReject(m, c) ==
  LET called == [m EXCEPT !.settleCalls = Append(@, <<"reject", c>>)]
  IN IF m.state # "pending" THEN called
     ELSE [called EXCEPT !.state = "rejected", !.code = c]

\* err instanceof FileObjectWalkerError: the walker's error class, named
\* BusterHashWalkerError as long as the walker was part of buster
IsFileObjectWalkerError(err) == err.kind = "BusterHashWalkerError"

\* a catch that answers every error with EXIT_INTERNAL_ERROR
MainCatch_allInternal(m, err) ==
  MainReject([m EXCEPT !.pos = "done", !.error = err], EXIT_INTERNAL_ERROR)

\* .catch((err) => { ... }) at the end of busterMain's chain
MainCatch(m, err) ==
  LET caught == [m EXCEPT !.pos = "done", !.error = err]
  IN IF err.kind = "BusterConfigError"
       THEN MainReject(caught, EXIT_CONFIG_ERROR)
     ELSE IF m.revision = "main.ts" THEN caught
     ELSE IF \/ err.kind \in {"BusterHashError", "BusterFileSystemError",
                              "BusterManifestError"}
             \/ IsFileObjectWalkerError(err)
       THEN MainReject(caught, EXIT_PROCESSING_ERROR)
     ELSE MainReject(caught, EXIT_INTERNAL_ERROR)

\* createManifestFile(result, config): writeJsonToFile is under way
createManifestFile(m, result, cfg) ==
  [m EXCEPT !.pos = "writeJsonToFile", !.manifest = "pending",
            !.calls = @ \o <<"createManifestFile", "writeJsonToFile">>,
            !.writeArgs = Append(@, <<cfg.outFile, result>>)]

\* a createManifestFile that hands the error of writeJsonToFile on
ManifestRejected_unwrapped(m, err, cfg) ==
  MainCatch([m EXCEPT !.manifest = "rejected", !.manifestError = err], err)

\* .catch((err) => { return reject(new BusterManifestError(...)); }) of
\* createManifestFile, and the catch of busterMain's chain that receives it
ManifestRejected(m, err, cfg) ==
  LET wrapped == BusterManifestError(cfg.outFile)
  IN MainCatch([m EXCEPT !.manifest = "rejected", !.manifestError = wrapped],
               wrapped)

\* .then(() => { return resolve(); }) of createManifestFile, and the last
\* .then of busterMain's chain
ManifestResolved(m) ==
  MainResolve([m EXCEPT !.pos = "done", !.manifest = "resolved",
                        !.manifestValue = "undefined",
                        !.manifests = Append(@, m.writeArgs[Len(m.writeArgs)])],
              EXIT_SUCCESS)

\* a chain that writes the manifest whatever became of the walk
AfterHashWalker_alwaysWrites(m, iv, cfg) ==
  IF m.pos # "hashWalker" \/ iv[cfg.input].state = "pending" THEN m
  ELSE createManifestFile(m, iv[cfg.input].value, cfg)

\* the callbacks busterMain's chain runs once the promise of hashWalker has
\* settled
\*   "main.ts":  .then((result) => { return resolve(EXIT_SUCCESS); })
\*   "manifest": .then((result) => { return createManifestFile(result, config); })
AfterHashWalker(m, iv, cfg) ==
  IF m.pos # "hashWalker" THEN m
  ELSE IF iv[cfg.input].state = "resolved"
    THEN IF m.revision = "main.ts"
           THEN MainResolve([m EXCEPT !.pos = "done"], EXIT_SUCCESS)
           ELSE createManifestFile(m, iv[cfg.input].value, cfg)
  ELSE IF iv[cfg.input].state = "rejected"
    THEN MainCatch(m, iv[cfg.input].error)
  ELSE m

(***************************************************************************)
(* The file system                                                         *)
(***************************************************************************)
\* a file system that is discovered while it is walked: stat, readdir and
\* the hash stream answer whatever a file system may answer
UnknownDisk == [known |-> FALSE, files |-> {}]

\* a file system whose regular files are known: <<path, content>> pairs
KnownDisk(files) == [known |-> TRUE, files |-> files]

FilePaths(d) == {f[1] : f \in d.files}

ContentOf(d, p) == (CHOOSE f \in d.files : f[1] = p)[2]

IsPrefix(a, b) == Len(a) <= Len(b) /\ SubSeq(b, 1, Len(a)) = a

\* the prefix the paths below directory p share
DirPrefix(p) == IF p = Sep THEN Sep ELSE p \o Sep

FilesBelow(d, p) ==
  {f \in FilePaths(d) : f # p /\ Len(f) > Len(DirPrefix(p))
                               /\ IsPrefix(DirPrefix(p), f)}

IsDirectoryOnDisk(d, p) == FilesBelow(d, p) # {}

\* the first component of a relative path
FirstComponent(rest) ==
  LET slashes == {i \in 1..Len(rest) : rest[i] = "/"}
  IN IF slashes = {} THEN rest
     ELSE SubSeq(rest, 1, (CHOOSE i \in slashes : \A j \in slashes : i <= j) - 1)

\* what readdir(p) lists
Listing(d, p) ==
  {FirstComponent(SubSeq(f, Len(DirPrefix(p)) + 1, Len(f))) :
     f \in FilesBelow(d, p)}

\* the content that marks an entry as a symbolic link to the directory it
\* is in
LinkToParent == "->"

\* the symbolic links of a file system
Links(d) == {f[1] : f \in {g \in d.files : g[2] = LinkToParent}}

\* the regular files of a file system
RegularFiles(d) == FilePaths(d) \ Links(d)

\* the links path p leads through
LinksOn(d, p) == {l \in Links(d) : p = l \/ IsPrefix(l \o Sep, p)}

RECURSIVE realpath(_, _)
\* the path stat, readdir, the hash stream, copyFile and rename work on:
\* p with every symbolic link followed
realpath(d, p) ==
  IF LinksOn(d, p) = {} THEN p
  ELSE LET l == CHOOSE x \in LinksOn(d, p) : TRUE
       IN realpath(d, dirname(l) \o SubSeq(p, Len(l) + 1, Len(p)))

RECURSIVE LinksFollowed(_, _)
\* how many symbolic links are followed on the way to p
LinksFollowed(d, p) ==
  IF LinksOn(d, p) = {} THEN 0
  ELSE LET l == CHOOSE x \in LinksOn(d, p) : TRUE
       IN 1 + LinksFollowed(d, dirname(l) \o SubSeq(p, Len(l) + 1, Len(p)))

\* there is an entry at p
ExistsOnDisk(d, p) ==
  LET real == realpath(d, p)
  IN real \in RegularFiles(d) \/ IsDirectoryOnDisk(d, real)

\* the md5 hex digest of a file's content
md5(content) ==
  IF content = "x" THEN <<"a", "b", "c", "d">> ELSE <<"e", "f", "0", "1">>

\* inputs that lstat reports as directories when the disk is not known
InputDirectories == {Sep, Input}

\* lstatSync(p).isDirectory()
lstatIsDirectory(p) ==
  IF disk.known THEN IsDirectoryOnDisk(disk, p) ELSE p \in InputDirectories

\* what stat(p).isDirectory() may answer: under busterMain the input is what
\* checkConfig has seen
StatOutcomes(p) ==
  IF disk.known
    THEN IF ExistsOnDisk(disk, p)
           THEN {IsDirectoryOnDisk(disk, realpath(disk, p))} ELSE {}
  ELSE IF main.pos # "none" /\ p = config.input THEN {lstatIsDirectory(p)}
  ELSE BOOLEAN

\* what readdir(p) may resolve with
Listings(p) ==
  IF disk.known
    THEN IF LinksFollowed(disk, p) < MaxLinks
           THEN {Listing(disk, realpath(disk, p))} ELSE {}
  ELSE {fileList \in SUBSET Names :
          Cardinality(DOMAIN inv) + Cardinality(fileList) <= MaxNodes}

\* what the hash stream of p may deliver
DigestsOf(p) ==
  IF disk.known
    THEN IF realpath(disk, p) \in RegularFiles(disk)
           THEN {md5(ContentOf(disk, realpath(disk, p)))} ELSE {}
  ELSE Digests

\* fs/promises copyFile(source, destination) done
fscopyFile(d, source, destination) ==
  IF ~d.known THEN d
  ELSE KnownDisk({f \in d.files : f[1] # destination}
                   \cup {<<destination, ContentOf(d, source)>>})

\* a rename that leaves the source where it is
rename_keepsSource(d, source, destination) ==
  IF ~d.known THEN d
  ELSE KnownDisk({f \in d.files : f[1] # destination}
                   \cup {<<destination, ContentOf(d, source)>>})

\* fs/promises rename(source, destination) done
rename(d, source, destination) ==
  IF ~d.known THEN d
  ELSE KnownDisk({f \in d.files : f[1] \notin {source, destination}}
                   \cup {<<destination, ContentOf(d, source)>>})

\* writeJsonToFile(file, data) done
writeJsonToFile(d, file, data) ==
  IF ~d.known THEN d
  ELSE KnownDisk({f \in d.files : f[1] # file} \cup {<<file, "json">>})

\* no function under test
NoCall == [fn |-> "none"]

(***************************************************************************)
(* State machine                                                           *)
(***************************************************************************)
Init ==
  /\ config \in [input : {Input}, extensions : {defaultExtensions},
                 hashLength : HashLengths,
                 commonPathLength : CommonPathLengths,
                 mode : {MODE_COPY},
                 outFile : {pathresolve(Input, defaultOutFile)}]
  /\ revision \in Revisions
  /\ inv = (Input :> NewInvocation(<<>>))
  /\ faults = <<>>
  /\ main = NoMain
  /\ disk = UnknownDisk
  /\ call = NoCall

\* a walker that hands directories to the payload as well
StatDone_payloadForAll(p) ==
  /\ inv[p].pos = "stat"
  /\ \E isDirectory \in StatOutcomes(p) :
       inv' = PayloadStart([Idle(inv, p) EXCEPT
                              ![p].kind = IF isDirectory THEN "dir" ELSE "file"],
                           p, config, revision)
  /\ main' = AfterHashWalker(main, inv', config)
  /\ UNCHANGED <<config, revision, faults, disk, call>>

\* a walker that asks lstat, to which a symbolic link is no directory
StatDone_lstat(p) ==
  /\ inv[p].pos = "stat"
  /\ \E isDirectory \in IF disk.known /\ p \in Links(disk) THEN {FALSE}
                         ELSE StatOutcomes(p) :
       inv' = IF isDirectory
                THEN [inv EXCEPT ![p].kind = "dir", ![p].pos = "readdir",
                                 ![p].readdirCalls = @ + 1]
                ELSE PayloadStart([Idle(inv, p) EXCEPT ![p].kind = "file"],
                                  p, config, revision)
  /\ main' = AfterHashWalker(main, inv', config)
  /\ UNCHANGED <<config, revision, faults, disk, call>>

\* stat(fileObject) resolved with a Stats object
StatDone(p) ==
  /\ inv[p].pos = "stat"
  /\ \E isDirectory \in StatOutcomes(p) :
       inv' = IF isDirectory
                THEN [inv EXCEPT ![p].kind = "dir", ![p].pos = "readdir",
                                 ![p].readdirCalls = @ + 1]
                ELSE PayloadStart([Idle(inv, p) EXCEPT ![p].kind = "file"],
                                  p, config, revision)
  /\ main' = AfterHashWalker(main, inv', config)
  /\ UNCHANGED <<config, revision, faults, disk, call>>

\* a stat failure handed on as it came
StatFailed_unwrapped(p) ==
  /\ inv[p].pos = "stat"
  /\ inv' = Reject(Idle(inv, p), p, ErrnoException("stat", p))
  /\ faults' = Append(faults, ErrnoException("stat", p))
  /\ main' = AfterHashWalker(main, inv', config)
  /\ UNCHANGED <<config, revision, disk, call>>

\* stat(fileObject) rejected
StatFailed(p) ==
  /\ inv[p].pos = "stat"
  /\ inv' = Reject(Idle(inv, p), p, BusterHashWalkerError("stat", p))
  /\ faults' = Append(faults, ErrnoException("stat", p))
  /\ main' = AfterHashWalker(main, inv', config)
  /\ UNCHANGED <<config, revision, disk, call>>

\* a listing without the check for the empty directory
ReaddirDone_noEmptyCheck(p) ==
  /\ inv[p].pos = "readdir"
  /\ \E fileList \in Listings(p) :
       LET children == {pathresolve(p, file) : file \in fileList}
              listed == [Idle(inv, p) EXCEPT ![p].nEntries = Cardinality(fileList),
                                             ![p].pending = Cardinality(fileList)]
       IN inv' = [c \in DOMAIN inv \cup children |->
                    IF c \in children THEN NewInvocation(p) ELSE listed[c]]
  /\ main' = AfterHashWalker(main, inv', config)
  /\ UNCHANGED <<config, revision, faults, disk, call>>

\* a listing that hands the entry to the recursive call inside the
\* configuration: Object.assign(config, { input: file })
ReaddirDone_assignsEntry(p) ==
  /\ inv[p].pos = "readdir"
  /\ \E fileList \in Listings(p) :
       LET children == {pathresolve(p, file) : file \in fileList}
              listed == [Idle(inv, p) EXCEPT ![p].nEntries = Cardinality(fileList),
                                             ![p].pending = Cardinality(fileList)]
       IN /\ inv' = IF fileList = {}
                      THEN Resolve(listed, p, listed[p].results)
                      ELSE [c \in DOMAIN inv \cup children |->
                              IF c \in children THEN NewInvocation(p)
                              ELSE listed[c]]
          /\ config' = IF fileList = {} THEN config
                       ELSE [config EXCEPT !.input =
                               CHOOSE c \in children : TRUE]
  /\ main' = main
  /\ UNCHANGED <<revision, faults, disk, call>>

\* readdir(fileObject) resolved with fileList
ReaddirDone(p) ==
  /\ inv[p].pos = "readdir"
  /\ \E fileList \in Listings(p) :
       LET children == {pathresolve(p, file) : file \in fileList}
              listed == [Idle(inv, p) EXCEPT ![p].nEntries = Cardinality(fileList),
                                             ![p].pending = Cardinality(fileList)]
       IN inv' = IF fileList = {}
                   THEN Resolve(listed, p, listed[p].results)
                   ELSE [c \in DOMAIN inv \cup children |->
                           IF c \in children THEN NewInvocation(p)
                           ELSE listed[c]]
  /\ main' = AfterHashWalker(main, inv', config)
  /\ UNCHANGED <<config, revision, faults, disk, call>>

\* a readdir failure handed on as it came
ReaddirFailed_unwrapped(p) ==
  /\ inv[p].pos = "readdir"
  /\ inv' = Reject(Idle(inv, p), p, ErrnoException("readdir", p))
  /\ faults' = Append(faults, ErrnoException("readdir", p))
  /\ main' = AfterHashWalker(main, inv', config)
  /\ UNCHANGED <<config, revision, disk, call>>

\* readdir(fileObject) rejected
ReaddirFailed(p) ==
  /\ inv[p].pos = "readdir"
  /\ inv' = Reject(Idle(inv, p), p, BusterHashWalkerError("readdir", p))
  /\ faults' = Append(faults, ErrnoException("readdir", p))
  /\ main' = AfterHashWalker(main, inv', config)
  /\ UNCHANGED <<config, revision, disk, call>>

\* hashFileContent resolved with the digest; the new filename is derived and
\* createFile is called
HashDone(p) ==
  /\ inv[p].pos = "hash"
  /\ \E hash \in DigestsOf(p) :
       LET newFilename == determineNewFilename(p, hash, config.hashLength)
       IN /\ inv' = createFile(inv, p, newFilename, config.mode)
          /\ faults' = IF inv'[p].pos = "create" THEN faults
                        ELSE Append(faults, BusterFileSystemError(p))
  /\ main' = AfterHashWalker(main, inv', config)
  /\ UNCHANGED <<config, revision, disk, call>>

\* hashFileContent rejected with a BusterHashError
HashFailed(p) ==
  /\ inv[p].pos = "hash"
  /\ inv' = PayloadRejected(Idle(inv, p), p, BusterHashError(p))
  /\ faults' = Append(faults, BusterHashError(p))
  /\ main' = AfterHashWalker(main, inv', config)
  /\ UNCHANGED <<config, revision, disk, call>>

\* hashFileContent resolved, deriving the new filename threw
DeriveThrew(p) ==
  /\ inv[p].pos = "hash"
  /\ inv' = PayloadRejected(Idle(inv, p), p, ThrownError(p))
  /\ faults' = Append(faults, ThrownError(p))
  /\ main' = AfterHashWalker(main, inv', config)
  /\ UNCHANGED <<config, revision, disk, call>>

\* createFile resolved with the new filename
CreateDone(p) ==
  /\ inv[p].pos = "create"
  /\ disk.known => realpath(disk, p) \in RegularFiles(disk)
  /\ inv' = PayloadResolved(Idle(inv, p), p, inv[p].plName, config, revision)
  /\ disk' = IF config.mode = MODE_COPY
                THEN fscopyFile(disk, realpath(disk, p),
                                realpath(disk, inv[p].plName))
                ELSE rename(disk, realpath(disk, p),
                            realpath(disk, inv[p].plName))
  /\ main' = AfterHashWalker(main, inv', config)
  /\ UNCHANGED <<config, revision, faults, call>>

\* createFile rejected with a BusterFileSystemError
CreateFailed(p) ==
  /\ inv[p].pos = "create"
  /\ inv' = createFileRejected(inv, p,
               ErrnoException(IF config.mode = MODE_COPY THEN "copyFile"
                              ELSE "rename", p))
  /\ faults' = Append(faults, BusterFileSystemError(p))
  /\ main' = AfterHashWalker(main, inv', config)
  /\ UNCHANGED <<config, revision, disk, call>>

Next ==
  \/ \E p \in DOMAIN inv : StatDone(p)
  \/ \E p \in DOMAIN inv : StatFailed(p)
  \/ \E p \in DOMAIN inv : ReaddirDone(p)
  \/ \E p \in DOMAIN inv : ReaddirFailed(p)
  \/ \E p \in DOMAIN inv : HashDone(p)
  \/ \E p \in DOMAIN inv : HashFailed(p)
  \/ \E p \in DOMAIN inv : DeriveThrew(p)
  \/ \E p \in DOMAIN inv : CreateDone(p)
  \/ \E p \in DOMAIN inv : CreateFailed(p)

Spec == Init /\ [][Next]_vars

(***************************************************************************)
(* State machine of busterMain                                             *)
(***************************************************************************)
\* --input as given on the command line: the root directory, a directory
\* relative to the working directory with a trailing separator, a file
RawInputs == {Sep, <<"r", "/">>, <<"/", "a", ".", "j", "s">>}

NotGiven(value) == [given |-> FALSE, value |-> value]

Given(value) == [given |-> TRUE, value |-> value]

\* what getopt returns for  -i <input> --hashLength 2
Argv(input) ==
  [getopt |-> "params", input |-> Given(input),
   commonPathLength |-> NotGiven(0),
   extension |-> NotGiven(ExtensionList({})),
   hashLength |-> Given(<<"2">>), mode |-> NotGiven(""),
   outFile |-> NotGiven(<<>>)]

\* the command lines busterMain is called with
Argvs(rev) ==
  LET file == Argv(<<"/", "a", ".", "j", "s">>)
      failing == {[file EXCEPT !.getopt = "null"],
                  [file EXCEPT !.getopt = "throws"]}
  IN IF rev = "main.ts" THEN {file} \cup failing
     ELSE {Argv(i) : i \in RawInputs} \cup failing
            \cup {[file EXCEPT !.input = NotGiven(<<>>)],
                  [file EXCEPT !.mode = Given("move"),
                               !.hashLength = NotGiven(<<>>)]}

\* "ok", or which of the two accessSync calls of checkConfig throws
AccessOutcomes == {"ok", "input", "outFile"}

MainInit ==
  /\ main \in {NewMain(rev, argv) : rev \in MainRevisions, argv \in
                 Argvs("main.ts") \cup Argvs("manifest")}
  /\ main.argv \in Argvs(main.revision)
  /\ config = NoConfig
  /\ revision = "hashwalker"
  /\ inv = <<>>
  /\ faults = <<>>
  /\ disk = UnknownDisk
  /\ call = NoCall

\* busterMain(argv) up to its first I/O: getConfig and checkConfig run
\* synchronously, their .then callbacks without any I/O in between; either
\* the catch at the end of the chain runs or hashWalker has called stat()
busterMain ==
  /\ main.pos = "argv"
  /\ \E access \in AccessOutcomes :
       LET got == getConfig(main.argv)
           checked == checkConfig(got.config,
                                  lstatIsDirectory(
                                    normalizedResolve(got.config.input)),
                                  access)
           m1 == [main EXCEPT !.calls = <<"getConfig">>]
           m2 == [m1 EXCEPT !.calls = Append(@, "checkConfig")]
           m3 == [m2 EXCEPT !.calls = Append(@, "hashWalker"),
                            !.pos = "hashWalker"]
       IN IF ~got.ok
            THEN /\ main' = MainCatch(m1, got.error)
                 /\ UNCHANGED <<config, inv>>
          ELSE IF ~checked.ok
            THEN /\ main' = MainCatch(m2, checked.error)
                 /\ UNCHANGED <<config, inv>>
          ELSE /\ main' = m3
               /\ config' = checked.config
               /\ inv' = (checked.config.input :> NewInvocation(<<>>))
  /\ UNCHANGED <<revision, faults, disk, call>>

\* writeJsonToFile resolved: createManifestFile resolves and the chain's last
\* .then resolves busterMain's promise
WriteDone ==
  /\ main.pos = "writeJsonToFile"
  /\ main' = ManifestResolved(main)
  /\ disk' = writeJsonToFile(disk, config.outFile, inv[config.input].value)
  /\ UNCHANGED <<config, revision, inv, faults, call>>

\* writeJsonToFile rejected: createManifestFile rejects with a
\* BusterManifestError, which the catch of the chain receives
WriteFailed ==
  /\ main.pos = "writeJsonToFile"
  /\ main' = ManifestRejected(main,
                               ErrnoException("writeJsonToFile", config.outFile),
                               config)
  /\ UNCHANGED <<config, revision, inv, faults, disk, call>>

\* the SIGINT handler busterMain attached: reject(EXIT_SIGINT); nothing that
\* is under way is stopped
Sigint ==
  /\ main.pos \notin {"none", "argv"}
  /\ main.state = "pending"
  /\ main' = MainReject(main, EXIT_SIGINT)
  /\ UNCHANGED <<config, revision, inv, faults, disk, call>>

MainNext ==
  \/ busterMain
  \/ \E p \in DOMAIN inv : StatDone(p)
  \/ \E p \in DOMAIN inv : StatFailed(p)
  \/ \E p \in DOMAIN inv : ReaddirDone(p)
  \/ \E p \in DOMAIN inv : ReaddirFailed(p)
  \/ \E p \in DOMAIN inv : HashDone(p)
  \/ \E p \in DOMAIN inv : HashFailed(p)
  \/ \E p \in DOMAIN inv : DeriveThrew(p)
  \/ \E p \in DOMAIN inv : CreateDone(p)
  \/ \E p \in DOMAIN inv : CreateFailed(p)
  \/ WriteDone
  \/ WriteFailed
  \/ Sigint

MainSpec == MainInit /\ [][MainNext]_vars

(***************************************************************************)
(* Vocabulary of the properties                                            *)
(***************************************************************************)
Children(q) == {c \in DOMAIN inv : inv[c].parent = q}

RECURSIVE Ancestors(_)
Ancestors(p) ==
  IF inv[p].parent = <<>> THEN {}
  ELSE {inv[p].parent} \cup Ancestors(inv[p].parent)

Descendants(q) == {d \in DOMAIN inv : q \in Ancestors(d)}

Rejected(p) == inv[p].state = "rejected"

Resolved(p) == inv[p].state = "resolved"

AllChildrenResolved(q) == \A c \in Children(q) : Resolved(c)

UnionOfChildMappings(q) == UNION {inv[c].value : c \in Children(q)}

\* the failures, in the order they happened, of entries below q
FaultsBelow(q) == {i \in DOMAIN faults : faults[i].at \in Descendants(q)}

FirstFaultBelow(q) ==
  faults[CHOOSE i \in FaultsBelow(q) : \A j \in FaultsBelow(q) : i <= j]

\* the path ends in ".<ext>" for one of the configured extensions
HasConfiguredExtension(p) ==
  \E e \in config.extensions : EndsWith(p, <<".">> \o e)

\* s without its first n characters
RemoveFirst(s, n) ==
  IF n <= 0 THEN s
  ELSE IF n >= Len(s) THEN <<>>
  ELSE [i \in 1..(Len(s) - n) |-> s[i + n]]

\* the path of p relative to the input directory
RootRelative(p) == RemoveFirst(p, Len(Input) + 1)

MatchingFiles ==
  {p \in DOMAIN inv : inv[p].kind = "file" /\ HasConfiguredExtension(p)}

NoIoOutstanding == \A p \in DOMAIN inv : inv[p].pos = "none"

(***************************************************************************)
(* C1                                                                      *)
(***************************************************************************)
\* C1 as stated: whenever a child invocation of a directory invocation has
\* rejected, the parent has rejected with that very child's error and never
\* resolved.
C1_Original ==
  \A q \in DOMAIN inv : \A c \in Children(q) :
    Rejected(c) => /\ Rejected(q)
                   /\ inv[q].error = inv[c].error
                   /\ inv[q].resolveCalls = 0

\* C1 (amended): whenever some child invocation of a directory invocation has
\* rejected, the parent has rejected with the unchanged error of the child
\* that failed first, resolve was never called on it, and the top-level walk
\* has rejected with the error raised at the entry that failed first.
C1_FailFast ==
  /\ \A q \in DOMAIN inv :
       (\E c \in Children(q) : Rejected(c)) =>
          /\ Rejected(q)
          /\ inv[q].resolveCalls = 0
          /\ inv[q].error = inv[FirstFaultBelow(q).at].error
          /\ \E c \in Children(q) :
               /\ Rejected(c)
               /\ inv[q].error = inv[c].error
               /\ FirstFaultBelow(q).at \in Descendants(c) \cup {c}
  /\ faults # <<>> =>
       /\ Rejected(Input)
       /\ inv[Input].error = inv[faults[1].at].error
       /\ inv[Input].error.at = faults[1].at

\* C1 witness: an entry two levels below the input failed and the input's
\* invocation rejected with its error although a sibling subtree had already
\* delivered an entry.
C1_Witness ==
  /\ Rejected(Input)
  /\ inv[Input].results # {}
  /\ \E q \in Children(Input) : \E c \in Children(q) :
       /\ Rejected(c)
       /\ inv[Input].error = inv[c].error

(***************************************************************************)
(* C2                                                                      *)
(***************************************************************************)
\* C2 as stated: a directory invocation with N >= 1 entries resolves exactly
\* once, exactly when all N children have resolved, with the union of the N
\* child mappings.
C2_Original ==
  \A q \in DOMAIN inv :
    inv[q].nEntries >= 1 =>
      /\ Resolved(q) => AllChildrenResolved(q)
      /\ AllChildrenResolved(q) =>
           /\ Resolved(q)
           /\ inv[q].resolveCalls = 1
           /\ inv[q].value = UnionOfChildMappings(q)

\* C2 (amended): a directory invocation with N >= 1 entries resolves exactly
\* once, exactly when all N children have resolved; its mapping holds exactly
\* the keys of the N child mappings, each once and with a value one of the
\* children gave it, and it is the union of the child mappings whenever no key
\* occurs in two of them.
C2_Join ==
  \A q \in DOMAIN inv :
    inv[q].nEntries >= 1 =>
      /\ Cardinality(Children(q)) = inv[q].nEntries
      /\ Resolved(q) => AllChildrenResolved(q)
      /\ AllChildrenResolved(q) =>
           /\ Resolved(q)
           /\ inv[q].resolveCalls = 1
           /\ Keys(inv[q].value) = Keys(UnionOfChildMappings(q))
           /\ inv[q].value \subseteq UnionOfChildMappings(q)
           /\ Cardinality(inv[q].value) = Cardinality(Keys(inv[q].value))
           /\ (\A c, d \in Children(q) :
                 c # d => Keys(inv[c].value) \cap Keys(inv[d].value) = {})
                => inv[q].value = UnionOfChildMappings(q)

\* C2 witness: a directory invocation resolved with two entries that came from
\* two different children.
C2_Witness ==
  \E q \in DOMAIN inv :
    /\ Resolved(q)
    /\ Cardinality(inv[q].value) = 2
    /\ \E c, d \in Children(q) :
         /\ c # d
         /\ inv[c].value # {}
         /\ inv[d].value # {}
         /\ inv[q].value = inv[c].value \cup inv[d].value

(***************************************************************************)
(* C3                                                                      *)
(***************************************************************************)
\* C3 as stated: when the walk has resolved and no file system operation
\* failed, the mapping holds one entry per file with a configured extension,
\* keyed by the file's path relative to the input, and nothing else.
C3_Original ==
  (Resolved(Input) /\ faults = <<>>) =>
     /\ Keys(inv[Input].value) = {RootRelative(f) : f \in MatchingFiles}
     /\ Cardinality(inv[Input].value) = Cardinality(MatchingFiles)

\* C3 (amended): when commonPathLength is the length of the input plus the
\* separator that ends it (what checkConfig computes for a directory other
\* than the root directory), the walk has
\* resolved and no file system operation failed, the mapping holds one entry
\* per file with a configured extension, keyed by the file's path relative to
\* the input, and nothing else.
C3_ExactlyMatchingFiles ==
  (/\ config.commonPathLength = Len(Input) + Len(Sep)
   /\ Resolved(Input)
   /\ faults = <<>>) =>
     /\ Keys(inv[Input].value) = {RootRelative(f) : f \in MatchingFiles}
     /\ Cardinality(inv[Input].value) = Cardinality(MatchingFiles)

\* C3 witness: a resolved walk over a tree with a matching file in a
\* subdirectory and a file without a configured extension.
C3_Witness ==
  /\ config.commonPathLength = Len(Input) + Len(Sep)
  /\ Resolved(Input)
  /\ faults = <<>>
  /\ \E f \in MatchingFiles :
       /\ inv[f].parent # Input
       /\ \E e \in inv[Input].value : e[1] = RootRelative(f)
  /\ \E g \in DOMAIN inv : inv[g].kind = "file" /\ ~HasConfiguredExtension(g)

(***************************************************************************)
(* C4                                                                      *)
(***************************************************************************)
\* C4: with the walker's default payload, once every started stat, readdir,
\* hash and materialize operation has completed and none of them failed, the
\* top-level walk has resolved and files without a configured extension
\* contributed no entry.
C4_NeverStalls ==
  (revision = "walker" /\ NoIoOutstanding /\ faults = <<>>) =>
     /\ Resolved(Input)
     /\ \A g \in DOMAIN inv :
          (inv[g].kind = "file" /\ ~HasConfiguredExtension(g))
             => inv[g].value = {}

(***************************************************************************)
(* C5                                                                      *)
(***************************************************************************)
\* C5: in the hashWalker revision, the payload invoked on a file whose
\* extension the filter rejects has resolved with the empty mapping, and
\* neither hashFileContent nor createFile was called for that file.
C5_FilteredResolvesEmpty ==
  revision = "hashwalker" =>
    \A p \in DOMAIN inv :
      (inv[p].payloadCalls > 0 /\ ~HasConfiguredExtension(p)) =>
         /\ inv[p].plState = "resolved"
         /\ inv[p].plMap = {}
         /\ inv[p].plError = NoError
         /\ inv[p].hashCalls = 0
         /\ inv[p].createCalls = 0

\* C5 witness: the payload ran on a file the filter rejects, below a
\* directory.
C5_Witness ==
  /\ revision = "hashwalker"
  /\ \E p \in DOMAIN inv :
       /\ inv[p].parent # <<>>
       /\ inv[p].payloadCalls = 1
       /\ ~HasConfiguredExtension(p)
       /\ inv[p].plState = "resolved"

(***************************************************************************)
(* C6                                                                      *)
(***************************************************************************)
StatFailures == {i \in DOMAIN faults : faults[i].op = "stat"}

\* C6 as stated: once stat has failed on an entry, the top-level walk has
\* rejected with a BusterHashWalkerError, and neither readdir nor the payload
\* was invoked for that entry.
C6_Original ==
  \A i \in StatFailures :
    /\ Rejected(Input)
    /\ inv[Input].error.kind = "BusterHashWalkerError"
    /\ inv[faults[i].at].readdirCalls = 0
    /\ inv[faults[i].at].payloadCalls = 0

\* C6 (amended): once stat has failed on an entry, the top-level walk has
\* rejected, and neither readdir nor the payload was invoked for that entry;
\* the caller receives the BusterHashWalkerError of that stat failure when it
\* is the first failure of the walk, and the error of the first failure
\* otherwise.
C6_StatFailureRejects ==
  \A i \in StatFailures :
    /\ Rejected(Input)
    /\ inv[Input].resolveCalls = 0
    /\ inv[faults[i].at].readdirCalls = 0
    /\ inv[faults[i].at].payloadCalls = 0
    /\ inv[faults[i].at].error.kind = "BusterHashWalkerError"
    /\ inv[Input].error = inv[faults[1].at].error
    /\ i = 1 => /\ inv[Input].error.kind = "BusterHashWalkerError"
                /\ inv[Input].error.op = "stat"
                /\ inv[Input].error.at = faults[i].at

\* C6 witness: stat failed first, on an entry two levels below the input, and
\* the walk rejected with that walker error.
C6_Witness ==
  /\ faults # <<>>
  /\ faults[1].op = "stat"
  /\ inv[faults[1].at].parent \notin {<<>>, Input}
  /\ Rejected(Input)
  /\ inv[Input].error.kind = "BusterHashWalkerError"

(***************************************************************************)
(* C7                                                                      *)
(***************************************************************************)
ReaddirFailures == {i \in DOMAIN faults : faults[i].op = "readdir"}

\* C7 as stated: once readdir has failed on the input or on a subdirectory,
\* the top-level walk has rejected with a BusterHashWalkerError, which is not
\* the underlying cause.
C7_Original ==
  \A i \in ReaddirFailures :
    /\ Rejected(Input)
    /\ inv[Input].error.kind = "BusterHashWalkerError"
    /\ inv[Input].error # faults[i]

\* C7 (amended): once readdir has failed on the input or on a subdirectory,
\* the top-level walk has rejected and what the caller receives is never the
\* underlying cause; it is the BusterHashWalkerError of that readdir failure
\* when it is the first failure of the walk, and the error of the first
\* failure otherwise.
C7_ReaddirFailureRejects ==
  \A i \in ReaddirFailures :
    /\ Rejected(Input)
    /\ inv[Input].resolveCalls = 0
    /\ inv[Input].error # faults[i]
    /\ inv[Input].error.kind # "ErrnoException"
    /\ inv[faults[i].at].error.kind = "BusterHashWalkerError"
    /\ inv[Input].error = inv[faults[1].at].error
    /\ i = 1 => /\ inv[Input].error.kind = "BusterHashWalkerError"
                /\ inv[Input].error.op = "readdir"
                /\ inv[Input].error.at = faults[i].at

\* C7 witness: readdir failed first, on a subdirectory, and the walk rejected
\* with that walker error.
C7_Witness ==
  /\ faults # <<>>
  /\ faults[1].op = "readdir"
  /\ faults[1].at # Input
  /\ Rejected(Input)
  /\ inv[Input].error.kind = "BusterHashWalkerError"

(***************************************************************************)
(* C8                                                                      *)
(***************************************************************************)
\* p is a directory that was listed, and everything below it is a listed
\* directory as well
OnlyListedDirectories(p) ==
  \A d \in Descendants(p) \cup {p} :
    /\ inv[d].kind = "dir"
    /\ inv[d].pos = "none"
    /\ \A i \in DOMAIN faults : faults[i].at # d

\* C8: an invocation on an empty directory, or on a directory below which
\* there are only (transitively) empty directories, has resolved with the
\* empty mapping and without an error.
C8_EmptyDirectory ==
  \A p \in DOMAIN inv :
    OnlyListedDirectories(p) =>
       /\ Resolved(p)
       /\ inv[p].value = {}
       /\ inv[p].error = NoError
       /\ inv[p].rejectCalls = 0

\* C8 witness: the input directory holds nothing but a directory that holds
\* nothing but an empty directory.
C8_Witness ==
  /\ OnlyListedDirectories(Input)
  /\ inv[Input].nEntries = 1
  /\ \E d \in Children(Input) :
       /\ inv[d].nEntries = 1
       /\ \E e \in Children(d) : inv[e].nEntries = 0 /\ Resolved(e)
  /\ Resolved(Input)

(***************************************************************************)
(* C9                                                                      *)
(***************************************************************************)
PayloadFailures ==
  {i \in DOMAIN faults : faults[i].op \in {"hash", "derive", "create"}}

\* C9: when hashFileContent, the derivation of the new filename or createFile
\* failed for a file, the payload rejected with exactly the value raised, the
\* file's walker invocation rejected with the same value and did not resolve,
\* and if that was the first failure of the walk the top-level caller receives
\* that value, whose kind tells hash, file system and walker failures apart.
C9_HardErrorsUnmodified ==
  \A i \in PayloadFailures :
    LET f == faults[i].at
    IN /\ inv[f].plState = "rejected"
       /\ inv[f].plError = faults[i]
       /\ inv[f].plMap = {}
       /\ Rejected(f)
       /\ inv[f].error = faults[i]
       /\ inv[f].resolveCalls = 0
       /\ faults[i].op = "hash" => inv[f].error.kind = "BusterHashError"
       /\ faults[i].op = "create" => inv[f].error.kind = "BusterFileSystemError"
       /\ faults[i].op = "derive" => inv[f].error.kind = "Thrown"
       /\ Rejected(Input)
       /\ i = 1 => inv[Input].error = faults[i]

\* C9 witness: createFile failed first, for a file two levels below the input,
\* and the caller received that BusterFileSystemError.
C9_Witness ==
  /\ faults # <<>>
  /\ faults[1].op = "create"
  /\ inv[faults[1].at].parent \notin {<<>>, Input}
  /\ Rejected(Input)
  /\ inv[Input].error.kind = "BusterFileSystemError"

(***************************************************************************)
(* C10                                                                     *)
(***************************************************************************)
\* C10: in the hashWalker revision, a payload that resolved after createFile
\* resolved yields exactly one entry: the source path without its first
\* commonPathLength characters, mapped to the path createFile returned without
\* its first commonPathLength characters.
C10_SingleRelativizedEntry ==
  revision = "hashwalker" =>
    \A p \in DOMAIN inv :
      (inv[p].plState = "resolved" /\ inv[p].createCalls > 0) =>
         /\ Cardinality(inv[p].plMap) = 1
         /\ inv[p].plMap =
              {<<RemoveFirst(p, config.commonPathLength),
                 RemoveFirst(inv[p].plName, config.commonPathLength)>>}

\* C10 witness: a payload resolved for a file below the input with the
\* commonPathLength of the input directory, so that key and value are proper
\* suffixes of the source and destination paths.
C10_Witness ==
  /\ revision = "hashwalker"
  /\ config.commonPathLength = Len(Input) + Len(Sep)
  /\ \E p \in DOMAIN inv :
       /\ inv[p].plState = "resolved"
       /\ inv[p].createCalls = 1
       /\ \E e \in inv[p].plMap :
            /\ e[1] # <<>> /\ e[1] # p
            /\ e[2] # <<>> /\ e[2] # inv[p].plName /\ e[2] # e[1]

(***************************************************************************)
(* Vocabulary of the properties of busterMain                              *)
(***************************************************************************)
\* hashWalker has been called, on config.input
WalkStarted == config.input \in DOMAIN inv

WalkResolved == WalkStarted /\ inv[config.input].state = "resolved"

WalkRejected == WalkStarted /\ inv[config.input].state = "rejected"

\* path.relative(from, to) for a path to below the directory from
relative(from, to) == RemoveFirst(to, Len(DirPrefix(from)))

\* the files for which createFile resolved
MaterializedFiles ==
  {f \in DOMAIN inv : inv[f].plState = "resolved" /\ inv[f].createCalls > 0}

\* checkConfig found a directory and no --commonPathLength
ComputedForDirectory ==
  /\ WalkStarted
  /\ ~main.argv.commonPathLength.given
  /\ lstatIsDirectory(config.input)

(***************************************************************************)
(* C11                                                                     *)
(***************************************************************************)
\* C11: for a directory input whose commonPathLength checkConfig computed,
\* the mapping the walk resolved with maps, for every file that was hashed
\* and materialized at whatever depth, the file's path relative to the input
\* directory to the new file's path relative to the input directory, and
\* holds nothing else; no key and no value starts with a separator.
C11_RelativeKeysAndValues ==
  (ComputedForDirectory /\ WalkResolved) =>
     /\ inv[config.input].value =
          {<<relative(config.input, f), relative(config.input, inv[f].plName)>> :
             f \in MaterializedFiles}
     /\ \A e \in inv[config.input].value :
          /\ e[1] # <<>> /\ e[1][1] # "/"
          /\ e[2] # <<>> /\ e[2][1] # "/"

\* the same for an input directory other than the root directory
C11_BelowRoot ==
  config.input # Sep => C11_RelativeKeysAndValues

(***************************************************************************)
(* C12                                                                     *)
(***************************************************************************)
\* checkConfig found a file and no --commonPathLength
FileInputNoLength ==
  /\ WalkStarted
  /\ ~main.argv.commonPathLength.given
  /\ ~lstatIsDirectory(config.input)

\* C12: for a single file as input and no commonPathLength on the command
\* line, the commonPathLength checkConfig produced is >= 0, and the mapping
\* the walk resolves with has exactly one key for a file with a configured
\* extension, the base filename of the input without any directory part.
C12_FileInputBaseName ==
  FileInputNoLength =>
     /\ config.commonPathLength >= 0
     /\ (WalkResolved /\ HasConfiguredExtension(config.input)) =>
           Keys(inv[config.input].value) = {basename1(config.input)}

(***************************************************************************)
(* C17                                                                     *)
(***************************************************************************)
\* the elements of a sequence
Range(seq) == {seq[i] : i \in DOMAIN seq}

\* the busterMain that writes the manifest
WritesManifest == main.revision = "manifest"

\* C17: in the busterMain that writes the manifest, writeJsonToFile has been
\* called only if hashWalker resolved; once the walk has rejected the writer
\* has not been called and busterMain's promise is rejected with a non-zero
\* exit code; once the walk has resolved the writer has been called exactly
\* once, with config.outFile and the mapping the walk resolved with.
C17_WriterAfterWalk ==
  WritesManifest =>
     /\ main.writeArgs # <<>> => WalkResolved
     /\ WalkRejected =>
          /\ main.writeArgs = <<>>
          /\ "createManifestFile" \notin Range(main.calls)
          /\ main.state = "rejected" /\ main.code # EXIT_SUCCESS
     /\ WalkResolved =>
          main.writeArgs = << <<config.outFile, inv[config.input].value>> >>

\* the walk resolved with an entry and the writer was called
C17_Witness ==
  /\ WritesManifest /\ WalkResolved
  /\ inv[config.input].value # {}
  /\ Len(main.writeArgs) = 1

(***************************************************************************)
(* C18                                                                     *)
(***************************************************************************)
\* the error the catch of busterMain's chain received
Caught(kinds) == main.pos = "done" /\ main.error.kind \in kinds

ConfigErrors == {"BusterConfigError"}

ProcessingErrors ==
  {"BusterHashError", "BusterFileSystemError", "BusterHashWalkerError",
   "BusterManifestError"}

\* the SIGINT handler ran while busterMain's promise was pending
Interrupted ==
  main.settleCalls # <<>> /\ main.settleCalls[1] = <<"reject", EXIT_SIGINT>>

\* configuration, walk and manifest writing all succeeded
AllSucceeded ==
  /\ main.calls = <<"getConfig", "checkConfig", "hashWalker",
                    "createManifestFile", "writeJsonToFile">>
  /\ WalkResolved
  /\ main.manifest = "resolved"
  /\ main.error = NoError

\* C18 as stated: the four exit codes are pairwise distinct; busterMain's
\* promise is resolved, with 0, only when configuration, walk and manifest
\* writing all succeeded; it is rejected with 78 when the chain ended with a
\* BusterConfigError, with 10 when it ended with a BusterHashError, a
\* BusterFileSystemError, the walker's error or a BusterManifestError, and
\* with 70 when it ended with any other error.
C18_Original ==
  WritesManifest =>
     /\ Cardinality({EXIT_SUCCESS, EXIT_CONFIG_ERROR, EXIT_PROCESSING_ERROR,
                     EXIT_INTERNAL_ERROR}) = 4
     /\ main.state = "resolved" => main.code = EXIT_SUCCESS /\ AllSucceeded
     /\ Caught(ConfigErrors) =>
          main.state = "rejected" /\ main.code = EXIT_CONFIG_ERROR
     /\ Caught(ProcessingErrors) =>
          main.state = "rejected" /\ main.code = EXIT_PROCESSING_ERROR
     /\ (main.pos = "done" /\ main.error.kind \notin
           ConfigErrors \cup ProcessingErrors \cup {"none"}) =>
          main.state = "rejected" /\ main.code = EXIT_INTERNAL_ERROR

\* reject(c) was the call of the chain's catch, and it settled the promise
\* unless the SIGINT handler had rejected it before
RejectedBy(c) ==
  /\ main.state = "rejected"
  /\ main.settleCalls[Len(main.settleCalls)] = <<"reject", c>>
  /\ main.code = IF Interrupted THEN EXIT_SIGINT ELSE c

\* C18: the five exit codes are pairwise distinct; busterMain's promise is
\* resolved, with 0, only when configuration, walk and manifest writing all
\* succeeded; when the chain ended with an error its catch called reject
\* with 78 for a BusterConfigError, with 10 for a BusterHashError, a
\* BusterFileSystemError, the walker's error or a BusterManifestError and
\* with 70 for any other error, and that is the code the promise is rejected
\* with unless SIGINT was caught before, when the code stays 130.
C18_ExitCodes ==
  WritesManifest =>
     /\ Cardinality({EXIT_SUCCESS, EXIT_CONFIG_ERROR, EXIT_PROCESSING_ERROR,
                     EXIT_INTERNAL_ERROR, EXIT_SIGINT}) = 5
     /\ main.state = "resolved" => main.code = EXIT_SUCCESS /\ AllSucceeded
     /\ Caught(ConfigErrors) => RejectedBy(EXIT_CONFIG_ERROR)
     /\ Caught(ProcessingErrors) => RejectedBy(EXIT_PROCESSING_ERROR)
     /\ (main.pos = "done" /\ main.error.kind \notin
           ConfigErrors \cup ProcessingErrors \cup {"none"}) =>
          RejectedBy(EXIT_INTERNAL_ERROR)
     /\ (main.pos = "done" /\ main.error = NoError) =>
          main.settleCalls[Len(main.settleCalls)] = <<"resolve", EXIT_SUCCESS>>

\* the manifest could not be written and busterMain rejected with 10
C18_Witness ==
  /\ WritesManifest
  /\ Caught({"BusterManifestError"})
  /\ main.state = "rejected" /\ main.code = EXIT_PROCESSING_ERROR

(***************************************************************************)
(* C19                                                                     *)
(***************************************************************************)
\* C19: once busterMain's chain has run to its end, with the resolution of
\* the last .then or with its catch, the promise busterMain returned is
\* settled, and with 70 if the error was neither a configuration nor a
\* processing error and no SIGINT came before.
C19_AlwaysSettles ==
  main.pos = "done" =>
     /\ main.state # "pending"
     /\ (main.error.kind \notin ConfigErrors \cup ProcessingErrors \cup {"none"}
           /\ ~Interrupted) => main.code = EXIT_INTERNAL_ERROR

(***************************************************************************)
(* C20                                                                     *)
(***************************************************************************)
\* C20: once createManifestFile has been called, writeJsonToFile has been
\* called exactly once, with config.outFile and the result of the walk; when
\* that call resolved createManifestFile resolved with undefined, when it
\* rejected createManifestFile rejected with a BusterManifestError and not
\* with the error of writeJsonToFile.
C20_CreateManifestFile ==
  main.manifest # "none" =>
     /\ main.writeArgs = << <<config.outFile, inv[config.input].value>> >>
     /\ Len(SelectSeq(main.calls, LAMBDA c : c = "writeJsonToFile")) = 1
     /\ main.manifest = "resolved" =>
          main.manifestValue = "undefined" /\ main.manifestError = NoError
     /\ main.manifest = "rejected" =>
          /\ main.manifestValue = "none"
          /\ main.manifestError.kind = "BusterManifestError"
          /\ main.error = main.manifestError

\* writeJsonToFile rejected for a non-empty result
C20_Witness ==
  /\ main.manifest = "rejected"
  /\ main.writeArgs[1][2] # {}

(***************************************************************************)
(* State machine of the name derivation                                    *)
(***************************************************************************)
\* largest --hashLength the name derivation is called with
MaxHashLength == 10

\* files the payload derives a name for: with and without directory, below
\* the root directory, nested, without extension, a dot file, two
\* extensions, a trailing dot below a directory with a dot
Filenames ==
  {<<"l", "i", "b", "/", "a", "p", "p", ".", "j", "s">>,
   <<"a", "p", "p", ".", "j", "s">>,
   <<"/", "a", ".", "j", "s">>,
   <<"/", "r", "/", "s", "u", "b", "/", "b", ".", "c", "s", "s">>,
   <<"/", "r", "/", "M", "a", "k", "e", "f", "i", "l", "e">>,
   <<"/", "r", "/", ".", "b", "a", "s", "h", "r", "c">>,
   <<"/", "r", "/", "a", ".", "t", "a", "r", ".", "g", "z">>,
   <<"/", "r", ".", "d", "/", "a", ".">>}

\* digests: an md5 digest cut to 16 characters, and one shorter than the
\* hash length may be
FileHashes ==
  {<<"a", "b", "c", "d", "e", "f", "1", "2", "3", "4", "5", "6", "7", "8", "9", "0">>,
   <<"e", "f">>}

\* determineNewFilename(filename, fileHash, hashLength) is about to be called
NameInit ==
  /\ call \in [fn : {"determineNewFilename"}, filename : Filenames,
               fileHash : FileHashes, hashLength : 0..MaxHashLength,
               done : {FALSE}, result : {<<>>}]
  /\ config = NoConfig
  /\ revision = "hashwalker"
  /\ inv = <<>>
  /\ faults = <<>>
  /\ main = NoMain
  /\ disk = UnknownDisk

\* the call returns
DetermineNewFilename ==
  /\ ~call.done
  /\ call' = [call EXCEPT !.done = TRUE,
                          !.result = determineNewFilename(call.filename,
                                                          call.fileHash,
                                                          call.hashLength)]
  /\ UNCHANGED <<config, revision, inv, faults, main, disk>>

NameNext == DetermineNewFilename

NameSpec == NameInit /\ [][NameNext]_vars

(***************************************************************************)
(* C13                                                                     *)
(***************************************************************************)
\* the directory part of a path, its last separator included
DirectoryPart(p) == SubSeq(p, 1, LastIndexOf(p, "/"))

\* the part of a path behind its last separator
NamePart(p) == SubSeq(p, LastIndexOf(p, "/") + 1, Len(p))

\* where the extension of a name starts: at its last dot, unless that is the
\* first character or there is none; then behind the name's end
ExtensionStart(name) ==
  IF LastIndexOf(name, ".") <= 1 THEN Len(name) + 1
  ELSE LastIndexOf(name, ".")

\* C13: the derived filename is the source's directory part followed by the
\* base name without extension, a dot, the first hashLength characters of
\* the digest and the extension with its leading dot; base and extension
\* together are the source's name; the derived file has the directory part of
\* the source; lib/app.js with digest abcdef1234567890 and hashLength 10
\* gives lib/app.abcdef1234.js.
C13_DerivedFilename ==
  (call.fn = "determineNewFilename" /\ call.done) =>
     LET name == NamePart(call.filename)
         base == SubSeq(name, 1, ExtensionStart(name) - 1)
         extension == SubSeq(name, ExtensionStart(name), Len(name))
         digest == SubSeq(call.fileHash, 1,
                          Min(call.hashLength, Len(call.fileHash)))
     IN /\ base \o extension = name
        /\ extension # <<>> => extension[1] = "."
        /\ call.result = DirectoryPart(call.filename) \o base \o <<".">>
                           \o digest \o extension
        /\ DirectoryPart(call.result) = DirectoryPart(call.filename)
        /\ (/\ call.filename = <<"l", "i", "b", "/", "a", "p", "p", ".", "j", "s">>
            /\ call.fileHash = <<"a", "b", "c", "d", "e", "f", "1", "2", "3", "4", "5", "6", "7", "8", "9", "0">>
            /\ call.hashLength = 10) =>
             call.result = <<"l", "i", "b", "/", "a", "p", "p", ".", "a", "b", "c", "d", "e", "f", "1", "2", "3", "4", ".", "j", "s">>

\* the example of the claim has been computed
C13_Witness ==
  /\ call.fn = "determineNewFilename" /\ call.done
  /\ call.filename = <<"l", "i", "b", "/", "a", "p", "p", ".", "j", "s">>
  /\ call.hashLength = 10
  /\ Len(call.result) = 21

(***************************************************************************)
(* State machine of buster on a known file system                          *)
(***************************************************************************)
\* the regular files below the input directory /r before the first run:
\* one file; the tree a.js, sub/b.css, sub/skip.txt; two files of the same
\* content side by side
Trees ==
  {{<<<<"/", "r", "/", "a", ".", "j", "s">>, "x">>},
   {<<<<"/", "r", "/", "a", ".", "j", "s">>, "x">>,
    <<<<"/", "r", "/", "s", "u", "b", "/", "b", ".", "c", "s", "s">>, "y">>,
    <<<<"/", "r", "/", "s", "u", "b", "/", "s", "k", "i", "p", ".", "t", "x", "t">>, "y">>},
   {<<<<"/", "r", "/", "a", ".", "j", "s">>, "x">>,
    <<<<"/", "r", "/", "b", ".", "c", "s", "s">>, "x">>}}

\* --mode as given on the command line
Modes == {MODE_COPY, MODE_RENAME, "move"}

\* buster -i r/ --hashLength 2 --mode <mode>
DiskArgv(mode) == [Argv(<<"r", "/">>) EXCEPT !.mode = Given(mode)]

DiskInit ==
  /\ disk \in {KnownDisk(tree) : tree \in Trees}
  /\ main \in {NewMain("manifest", DiskArgv(mode)) : mode \in Modes}
  /\ config = NoConfig
  /\ revision = "hashwalker"
  /\ inv = <<>>
  /\ faults = <<>>
  /\ call = NoCall

\* buster is started a second time with the same command line, after the
\* first run exited with EXIT_SUCCESS
RunAgain ==
  /\ main.pos = "done" /\ main.state = "resolved" /\ main.run = 1
  /\ main' = [NewMain(main.revision, main.argv) EXCEPT
                !.run = 2, !.manifests = main.manifests]
  /\ config' = NoConfig
  /\ inv' = <<>>
  /\ faults' = <<>>
  /\ UNCHANGED <<revision, disk, call>>

DiskNext ==
  \/ busterMain
  \/ \E p \in DOMAIN inv : StatDone(p)
  \/ \E p \in DOMAIN inv : ReaddirDone(p)
  \/ \E p \in DOMAIN inv : HashDone(p)
  \/ \E p \in DOMAIN inv : CreateDone(p)
  \/ \E p \in DOMAIN inv : CreateFailed(p)
  \/ WriteDone
  \/ RunAgain

DiskSpec == DiskInit /\ [][DiskNext]_vars

(***************************************************************************)
(* C14                                                                     *)
(***************************************************************************)
\* createFile of invocation p resolves in this step
Materializes(p) ==
  /\ p \in DOMAIN inv /\ inv[p].pos = "create"
  /\ p \in DOMAIN inv' /\ inv'[p].plState = "resolved"

\* C14: in every step in which createFile(source, destination, mode)
\* resolves, after a copy source and destination both exist with the content
\* the source had, after a rename the destination exists with the content the
\* source had and the source does not exist any more; the payload goes on
\* with the destination path, which becomes the value of the file's entry;
\* every other file is there as before, and no file but the destination has
\* appeared.
C14_Materialized ==
  [][\A p \in DOMAIN inv : Materializes(p) =>
       LET destination == inv[p].plName
       IN /\ destination \in FilePaths(disk')
          /\ ContentOf(disk', destination) = ContentOf(disk, p)
          /\ config.mode = MODE_COPY =>
               p \in FilePaths(disk') /\ ContentOf(disk', p) = ContentOf(disk, p)
          /\ config.mode = MODE_RENAME => p \notin FilePaths(disk')
          /\ inv'[p].plName = destination
          /\ inv'[p].plMap = {<<relative(config.input, p),
                                relative(config.input, destination)>>}
          /\ {f \in disk'.files : f[1] \notin {p, destination}}
               = {f \in disk.files : f[1] \notin {p, destination}}
    ]_vars

\* a file of the subdirectory has been renamed
C14_Witness ==
  /\ disk.known /\ config # NoConfig /\ config.mode = MODE_RENAME
  /\ \E p \in DOMAIN inv :
       /\ inv[p].plState = "resolved" /\ inv[p].createCalls = 1
       /\ Len(p) > 8
       /\ p \notin FilePaths(disk)
       /\ inv[p].plName \in FilePaths(disk)

(***************************************************************************)
(* C15                                                                     *)
(***************************************************************************)
\* C15: whenever createFile has been called and the payload rejected, it
\* rejected with a BusterFileSystemError and the file has no entry; with a
\* mode other than copy and rename no copy and no rename is ever under way,
\* every call of createFile has rejected, the source is still there and the
\* destination is not.
C15_MaterializerFailures ==
  (disk.known /\ config # NoConfig) =>
    \A p \in DOMAIN inv : inv[p].createCalls > 0 =>
       /\ inv[p].plState = "rejected" =>
            /\ inv[p].plError.kind = "BusterFileSystemError"
            /\ inv[p].plMap = {}
            /\ inv[p].state = "rejected"
            /\ inv[p].error.kind = "BusterFileSystemError"
       /\ config.mode \notin {MODE_COPY, MODE_RENAME} =>
            /\ inv[p].pos # "create"
            /\ inv[p].plState = "rejected"
            /\ p \in FilePaths(disk)
            /\ inv[p].plName \notin FilePaths(disk)

\* copyFile failed for a file
C15_Witness ==
  /\ disk.known /\ config # NoConfig /\ config.mode = MODE_COPY
  /\ \E p \in DOMAIN inv :
       /\ inv[p].createCalls = 1 /\ inv[p].plState = "rejected"
       /\ inv[p].plName \notin FilePaths(disk)

(***************************************************************************)
(* C16                                                                     *)
(***************************************************************************)
\* C16: when buster has run twice in copy mode on the same input directory
\* and written its manifest both times, the second manifest is the first.
C16_SecondRunSameManifest ==
  (main.argv.mode = Given(MODE_COPY) /\ Len(main.manifests) = 2) =>
     main.manifests[2] = main.manifests[1]

(***************************************************************************)
(* State machine of hashFileContent                                        *)
(***************************************************************************)
\* largest number of chunks the read stream delivers for a file
MaxChunks == 2

RECURSIVE ChunkSequences(_)
\* the contents of a file as the chunks the read stream delivers
ChunkSequences(n) ==
  IF n = 0 THEN {<<>>}
  ELSE ChunkSequences(n - 1)
         \cup {Append(c, x) : c \in {d \in ChunkSequences(n - 1) : Len(d) = n - 1},
                              x \in {"x", "y"}}

\* hash.digest("hex") after the chunks fed with hash.update
hexDigest(fed) ==
  md5(IF fed # <<>> /\ \A i \in DOMAIN fed : fed[i] = "x" THEN "x" ELSE "y")

\* a stream handler that settles the promise with the digest of what has
\* been read so far
streamOnError_resolves(c, err) ==
  IF c.state # "pending" THEN [c EXCEPT !.stream = "destroyed"]
  ELSE [c EXCEPT !.stream = "destroyed", !.state = "resolved",
                 !.value = hexDigest(c.fed)]

\* stream.on("error", () => { return reject(new BusterHashError(...)); })
streamOnError(c, err) ==
  IF c.state # "pending" THEN [c EXCEPT !.stream = "destroyed"]
  ELSE [c EXCEPT !.stream = "destroyed", !.state = "rejected",
                 !.error = BusterHashError(c.filename)]

\* stream.on("end", () => { return resolve(hash.digest("hex")); })
streamOnEnd(c) ==
  IF c.state # "pending" THEN [c EXCEPT !.stream = "ended"]
  ELSE [c EXCEPT !.stream = "ended", !.state = "resolved",
                 !.value = hexDigest(c.fed)]

\* stream.on("data", (chunk) => { hash.update(chunk); })
streamOnData(c, chunk) == [c EXCEPT !.fed = Append(@, chunk)]

\* hashFileContent(filename) has created the hash and the read stream and
\* attached its three handlers
HashInit ==
  /\ call \in [fn : {"hashFileContent"}, filename : Filenames,
               content : ChunkSequences(MaxChunks), fed : {<<>>},
               stream : {"open"}, state : {"pending"}, value : {<<>>},
               error : {NoError}, cause : {NoError}]
  /\ config = NoConfig
  /\ revision = "hashwalker"
  /\ inv = <<>>
  /\ faults = <<>>
  /\ main = NoMain
  /\ disk = UnknownDisk

\* the stream emits "data" with the next chunk of the file
StreamData ==
  /\ call.stream = "open"
  /\ Len(call.fed) < Len(call.content)
  /\ call' = streamOnData(call, call.content[Len(call.fed) + 1])
  /\ UNCHANGED <<config, revision, inv, faults, main, disk>>

\* the stream emits "end": the whole file has been read
StreamEnd ==
  /\ call.stream = "open"
  /\ Len(call.fed) = Len(call.content)
  /\ call' = streamOnEnd(call)
  /\ UNCHANGED <<config, revision, inv, faults, main, disk>>

\* the stream emits "error" and is destroyed: the file could not be opened
\* (nothing read so far) or a read failed
StreamError ==
  /\ call.stream = "open"
  /\ LET err == ErrnoException(IF call.fed = <<>> THEN "open" ELSE "read",
                               call.filename)
     IN call' = [streamOnError(call, err) EXCEPT !.cause = err]
  /\ UNCHANGED <<config, revision, inv, faults, main, disk>>

HashNext == StreamData \/ StreamEnd \/ StreamError

HashSpec == HashInit /\ [][HashNext]_vars

(***************************************************************************)
(* C21                                                                     *)
(***************************************************************************)
\* C21: once the read stream has emitted an error, before or after chunks
\* were read, hashFileContent is rejected with a BusterHashError, not with
\* the stream's error, and has no digest; it is resolved only when the
\* stream has ended without an error, and then with the hex digest of the
\* whole content; until then it is pending.
C21_HashFileContent ==
  call.fn = "hashFileContent" =>
     /\ call.cause # NoError =>
          /\ call.state = "rejected"
          /\ call.error.kind = "BusterHashError"
          /\ call.value = <<>>
     /\ call.state = "resolved" =>
          /\ call.stream = "ended" /\ call.cause = NoError
          /\ call.fed = call.content
          /\ call.value = hexDigest(call.content)
     /\ call.stream = "open" => call.state = "pending"
     /\ call.stream = "ended" => call.state = "resolved"

\* a read failed after the first chunk
C21_Witness ==
  /\ call.fn = "hashFileContent"
  /\ call.cause.op = "read" /\ Len(call.fed) = 1 /\ Len(call.content) = 2
  /\ call.state = "rejected"

(***************************************************************************)
(* State machine of getConfig and checkConfig                              *)
(***************************************************************************)
\* --input: the root directory, a directory and a file relative to the
\* working directory, a file below the root directory
ConfigInputs ==
  {Sep, <<"r", "/">>, <<"/", "a", ".", "j", "s">>, <<"r", "/", "a", ".", "j", "s">>}

\* --outFile: a bare filename, a relative and an absolute path
ConfigOutFiles ==
  {<<"m", ".", "j", "s", "o", "n">>, <<"o", "/", "m", ".", "j", "s", "o", "n">>, <<"/", "o", "/", "m", ".", "j", "s", "o", "n">>}

\* what getopt may return
ConfigArgvs ==
  [getopt : {"params", "null"},
   input : {NotGiven(<<>>)} \cup {Given(i) : i \in ConfigInputs},
   commonPathLength : {NotGiven(0), Given(-1), Given(0), Given(13)},
   extension : {NotGiven(ExtensionList({})),
                Given(ExtensionString(<<"h", "t", "m", "l">>)),
                Given(ExtensionList({<<"t", "x", "t">>, <<"h", "t", "m", "l">>}))},
   hashLength : {NotGiven(<<>>), Given(<<"3">>), Given(<<"1", "2", "p", "x">>)},
   mode : {NotGiven(""), Given(MODE_RENAME), Given("move")},
   outFile : {NotGiven(<<>>)} \cup {Given(o) : o \in ConfigOutFiles}]

\* getConfig(argv) is about to be called
ConfigInit ==
  /\ call \in [fn : {"getConfig"}, argv : ConfigArgvs, stage : {"argv"},
               ok : {TRUE}, config : {NoConfig}, error : {NoError},
               given : {NoConfig}, inputIsDirectory : {FALSE},
               access : {"none"}]
  /\ config = NoConfig
  /\ revision = "hashwalker"
  /\ inv = <<>>
  /\ faults = <<>>
  /\ main = NoMain
  /\ disk = UnknownDisk

\* the promise of getConfig(argv) settles
GetConfig ==
  /\ call.stage = "argv"
  /\ LET got == getConfig(call.argv)
     IN call' = [call EXCEPT !.stage = "getConfig", !.ok = got.ok,
                             !.config = IF got.ok THEN got.config ELSE NoConfig,
                             !.error = IF got.ok THEN NoError ELSE got.error]
  /\ UNCHANGED <<config, revision, inv, faults, main, disk>>

\* the promise of checkConfig(config) settles, for the configuration
\* getConfig resolved with
CheckConfig ==
  /\ call.stage = "getConfig" /\ call.ok
  /\ \E access \in AccessOutcomes :
       LET isDirectory == lstatIsDirectory(normalizedResolve(call.config.input))
           checked == checkConfig(call.config, isDirectory, access)
       IN call' = [call EXCEPT !.stage = "checkConfig", !.ok = checked.ok,
                               !.given = call.config,
                               !.inputIsDirectory = isDirectory,
                               !.access = access,
                               !.config = IF checked.ok THEN checked.config
                                          ELSE NoConfig,
                               !.error = IF checked.ok THEN NoError
                                         ELSE checked.error]
  /\ UNCHANGED <<config, revision, inv, faults, main, disk>>

ConfigNext == GetConfig \/ CheckConfig

ConfigSpec == ConfigInit /\ [][ConfigNext]_vars

(***************************************************************************)
(* C22                                                                     *)
(***************************************************************************)
\* getConfig has settled (and checkConfig has not been called yet)
GotConfig == call.fn = "getConfig" /\ call.stage = "getConfig"

\* C22: when getopt returned null, getConfig rejected with a
\* BusterConfigError "Could not parse command line parameters"; when getopt
\* returned parameters without an input, it rejected with a BusterConfigError
\* "Missing parameter input"; in both cases it resolved with no
\* configuration.
C22_GetConfigRejects ==
  GotConfig =>
     /\ call.argv.getopt = "null" =>
          /\ ~call.ok /\ call.config = NoConfig
          /\ call.error.kind = "BusterConfigError"
          /\ call.error.op = "Could not parse command line parameters"
     /\ (call.argv.getopt = "params" /\ ~call.argv.input.given) =>
          /\ ~call.ok /\ call.config = NoConfig
          /\ call.error.kind = "BusterConfigError"
          /\ call.error.op = "Missing parameter input"

\* every parameter but the input was supplied and getConfig rejected
C22_Witness ==
  /\ GotConfig /\ ~call.ok
  /\ call.argv.getopt = "params" /\ ~call.argv.input.given
  /\ call.argv.mode.given /\ call.argv.outFile.given
  /\ call.argv.hashLength.given /\ call.argv.extension.given

(***************************************************************************)
(* C23                                                                     *)
(***************************************************************************)
RECURSIVE decimal(_)
\* the decimal digits of a natural number
decimal(n) ==
  IF n < 10 THEN <<CHOOSE c \in {"0", "1", "2", "3", "4", "5", "6", "7", "8", "9"} :
                     DigitValue(c) = n>>
  ELSE decimal(n \div 10) \o decimal(n % 10)

\* the defaults of the README, and every supplied parameter but the hash
\* length as supplied, a single extension wrapped into a list
DefaultsAndPassThrough ==
  /\ call.config.input = call.argv.input.value
  /\ call.config.commonPathLength =
       IF call.argv.commonPathLength.given
         THEN call.argv.commonPathLength.value ELSE -1
  /\ call.config.extensions =
       IF ~call.argv.extension.given THEN {<<"c", "s", "s">>, <<"j", "s">>}
       ELSE IF call.argv.extension.value.isString
         THEN {call.argv.extension.value.string}
       ELSE call.argv.extension.value.list
  /\ call.config.mode =
       IF call.argv.mode.given THEN call.argv.mode.value ELSE "copy"
  /\ call.config.outFile =
       IF call.argv.outFile.given THEN call.argv.outFile.value
       ELSE <<"a", "s", "s", "e", "t", "-", "m", "a", "n", "i", "f", "e", "s", "t", ".", "j", "s", "o", "n">>
  /\ ~call.argv.hashLength.given => call.config.hashLength = 10

CheckedConfig ==
  call.fn = "getConfig" /\ call.stage = "checkConfig" /\ call.ok

\* normalize(resolve(input)) for the inputs of ConfigInputs, the working
\* directory being the root directory
NormalizedInput(raw) ==
  CASE raw = Sep -> Sep
    [] raw = <<"r", "/">> -> <<"/", "r">>
    [] raw = <<"/", "a", ".", "j", "s">> -> <<"/", "a", ".", "j", "s">>
    [] raw = <<"r", "/", "a", ".", "j", "s">> -> <<"/", "r", "/", "a", ".", "j", "s">>

\* C24: the commonPathLength checkConfig resolved with is the length of the
\* normalized input plus the length of the separator if the commonPathLength
\* it was given is -1 and the input is a directory, and the given
\* commonPathLength otherwise.
C24_CommonPathLength ==
  CheckedConfig =>
     call.config.commonPathLength =
       IF call.given.commonPathLength = -1 /\ call.inputIsDirectory
         THEN Len(NormalizedInput(call.given.input)) + 1
         ELSE call.given.commonPathLength

\* the length was computed for the directory r/
C24_Witness ==
  /\ CheckedConfig
  /\ call.given.input = <<"r", "/">>
  /\ ~call.argv.commonPathLength.given
  /\ call.config.commonPathLength = 3

(***************************************************************************)
(* C25                                                                     *)
(***************************************************************************)
\* C25: the input checkConfig resolved with is the normalized absolute
\* input; a bare outFile is resolved to that directory when the input is a
\* directory and to the directory that contains the input when it is a
\* file; an outFile with a path is made absolute and is otherwise as given.
C25_OutFile ==
  CheckedConfig =>
     LET input == NormalizedInput(call.given.input)
         outFile == call.given.outFile
         bare == "/" \notin Range(outFile)
     IN /\ call.config.input = input
        /\ (bare /\ call.inputIsDirectory) =>
             call.config.outFile = DirPrefix(input) \o outFile
        /\ (bare /\ ~call.inputIsDirectory) =>
             call.config.outFile = DirectoryPart(input) \o outFile
        /\ (~bare /\ outFile[1] = "/") => call.config.outFile = outFile
        /\ (~bare /\ outFile[1] # "/") =>
             call.config.outFile = Cwd \o outFile

\* the default outFile was placed beside the file r/a.js
C25_Witness ==
  /\ CheckedConfig
  /\ ~call.argv.outFile.given
  /\ call.given.input = <<"r", "/", "a", ".", "j", "s">>
  /\ call.config.outFile = <<"/", "r", "/", "a", "s", "s", "e", "t", "-", "m", "a", "n", "i", "f", "e", "s", "t", ".", "j", "s", "o", "n">>

(***************************************************************************)
(* C26                                                                     *)
(***************************************************************************)
\* the error with which a step of the payload of p failed
StepFailed(p, kind) ==
  \E i \in DOMAIN faults : faults[i].kind = kind /\ faults[i].at = p

\* C26: for every file the payload is called at most once and calls
\* hashFileContent and createFile at most once each; hashFileContent is
\* called only for a file that passed the filter; createFile is called only
\* after hashFileContent resolved, with the name derived from the digest;
\* the file has an entry only after createFile resolved; while the hash or
\* the materialization is under way nothing of what follows has happened.
C26_PayloadOrder ==
  \A p \in DOMAIN inv :
     /\ inv[p].payloadCalls <= 1 /\ inv[p].hashCalls <= 1
     /\ inv[p].createCalls <= 1
     /\ inv[p].hashCalls = 1 =>
          inv[p].payloadCalls = 1 /\ filterByExtension(p, config.extensions)
     /\ inv[p].createCalls = 1 =>
          /\ inv[p].hashCalls = 1 /\ inv[p].pos # "hash"
          /\ ~StepFailed(p, "BusterHashError") /\ ~StepFailed(p, "Thrown")
          /\ \E hash \in Digests :
               inv[p].plName = dirname(p) \o Sep
                 \o basename(p, extname(p)) \o <<".">>
                 \o SubSeq(hash, 1, config.hashLength) \o extname(p)
     /\ inv[p].plMap # {} =>
          /\ inv[p].createCalls = 1 /\ inv[p].pos = "none"
          /\ inv[p].plState = "resolved"
          /\ ~StepFailed(p, "BusterFileSystemError")
     /\ inv[p].pos = "hash" =>
          inv[p].createCalls = 0 /\ inv[p].plState = "pending"
     /\ inv[p].pos = "create" =>
          inv[p].plMap = {} /\ inv[p].plState = "pending"

\* a file has its entry, another one was stopped by the filter
C26_Witness ==
  /\ \E p \in DOMAIN inv : inv[p].plMap # {} /\ inv[p].createCalls = 1
  /\ \E p \in DOMAIN inv :
       inv[p].payloadCalls = 1 /\ inv[p].hashCalls = 0

(***************************************************************************)
(* C27                                                                     *)
(***************************************************************************)
\* C27: no step of fileObjectWalker or of the payload, in a successful or in
\* a failed walk, at whatever depth, changes the configuration the top-level
\* call was given; the entry an invocation works on is its own parameter and
\* never config.input.
C27_ConfigUnchanged ==
  [][/\ config' = config
     /\ \A p \in DOMAIN inv' : p # Input => config'.input # p]_vars

\* a walk with an invocation two levels below the input has failed
C27_Witness ==
  /\ Rejected(Input)
  /\ \E p \in DOMAIN inv : inv[p].parent \notin {<<>>, Input}
  /\ config.input = Input

(***************************************************************************)
(* C28                                                                     *)
(***************************************************************************)
\* the entry a file contributes: fixed by its path, its content's digest and
\* the configuration
EntryOf(f) ==
  UNION {ResultEntry(f, determineNewFilename(f, d, config.hashLength),
                     config.commonPathLength) : d \in DigestsOf(f)}

\* the entries of all files with a configured extension: fixed by the tree
\* and the configuration, whatever the order of the completions
EntriesOfTree == UNION {EntryOf(f) : f \in MatchingFiles}

RECURSIVE SumOfSizes(_)
\* the sizes of the mappings of the invocations in cs, added up
SumOfSizes(cs) ==
  IF cs = {} THEN 0
  ELSE LET c == CHOOSE x \in cs : TRUE
       IN Cardinality(inv[c].value) + SumOfSizes(cs \ {c})

\* no two children of q that have resolved hold the same key, what q has
\* merged so far lost no entry, and once q resolved its mapping is as large
\* as the mappings of its children together
DisjointKeyUnion(q) ==
  LET merged == {c \in Children(q) : Resolved(c)}
  IN /\ \A c, d \in merged :
          c # d => Keys(inv[c].value) \cap Keys(inv[d].value) = {}
     /\ Cardinality(inv[q].results) = SumOfSizes(merged)
     /\ Resolved(q) => Cardinality(inv[q].value) = SumOfSizes(Children(q))

Rejects(q) ==
  /\ q \in DOMAIN inv => ~Rejected(q)
  /\ inv'[q].state = "rejected"

\* C30: an invocation that has rejected stays rejected with the error it
\* reported, whatever its other children deliver later; and an invocation
\* that rejects on behalf of a child does so in the step in which the first
\* of its children rejects, with that child's error and without ever having
\* resolved.
C30_FirstRejectionWins ==
  [][/\ \A q \in DOMAIN inv :
          Rejected(q) => /\ inv'[q].state = "rejected"
                         /\ inv'[q].error = inv[q].error
                         /\ inv'[q].resolveCalls = 0
     /\ \A c \in DOMAIN inv' :
          (Rejects(c) /\ inv'[c].parent # <<>>) =>
             LET q == inv'[c].parent
             IN /\ inv'[q].state = "rejected"
                /\ inv'[q].resolveCalls = 0
                /\ (\A d \in Children(q) : ~Rejected(d)) =>
                      /\ Rejects(q)
                      /\ inv'[q].error = inv'[c].error
                /\ (\E d \in Children(q) : Rejected(d)) =>
                      inv'[q].error = inv[q].error]_vars

\* C30 witness: two children of the input rejected with different errors, a
\* third one resolved, and the input reports the error of one of the two.
C30_Witness ==
  /\ Rejected(Input)
  /\ inv[Input].rejectCalls = 2
  /\ inv[Input].resolveCalls = 0
  /\ \E c, d, e \in Children(Input) :
       /\ Rejected(c)
       /\ Rejected(d)
       /\ Resolved(e)
       /\ inv[c].error # inv[d].error
       /\ inv[Input].error = inv[c].error

(***************************************************************************)
(* C31                                                                     *)
(***************************************************************************)
\* the operation invocation p has under way can complete
CanComplete(p) ==
  CASE inv[p].pos = "stat" -> ENABLED StatDone(p)
    [] inv[p].pos = "readdir" -> ENABLED ReaddirDone(p)
    [] inv[p].pos = "hash" -> ENABLED HashDone(p)
    [] inv[p].pos = "create" -> ENABLED (CreateDone(p) \/ CreateFailed(p))
    [] OTHER -> TRUE

\* the step completes the operation invocation p has under way
Completes(p) ==
  /\ inv[p].pos # "none"
  /\ inv'[p].pos # inv[p].pos \/ inv'[p].payloadCalls # inv[p].payloadCalls

\* C31: once the walk has rejected, every operation that is under way can
\* still complete and is never called off by a step of another invocation; a
\* createFile that completes then still copies or renames its source; the
\* walk stays rejected with an empty value, no manifest is written and
\* busterMain never resolves.
C31_NoCancellationNoRollback ==
  /\ [](WalkRejected => \A p \in DOMAIN inv : CanComplete(p))
  /\ [][WalkRejected =>
          /\ inv'[config.input].state = "rejected"
          /\ inv'[config.input].value = {}
          /\ inv'[config.input].error = inv[config.input].error
          /\ main'.state # "resolved"
          /\ main'.writeArgs = <<>>
          /\ \A p, r \in DOMAIN inv :
               (Completes(p) /\ r # p /\ inv[r].pos # "none")
                  => inv'[r].pos = inv[r].pos
          /\ \A p \in DOMAIN inv : Materializes(p) =>
               /\ inv[p].plName \in FilePaths(disk')
               /\ ContentOf(disk', inv[p].plName) = ContentOf(disk, p)
               /\ config.mode = MODE_RENAME => p \notin FilePaths(disk')
               /\ inv'[p].plMap # {}
               /\ inv'[p].plMap \cap inv'[config.input].value = {}
      ]_vars

\* C31 witness: the walk has rejected, a hashed file is on disk although its
\* entry is in no value handed to the caller, and an operation of another
\* entry is still under way.
C31_Witness ==
  /\ WalkRejected
  /\ main.state = "rejected"
  /\ \E p \in MaterializedFiles :
       /\ inv[p].plName \in FilePaths(disk)
       /\ inv[p].plMap # {}
       /\ inv[config.input].value = {}
  /\ \E r \in DOMAIN inv : inv[r].pos # "none"

(***************************************************************************)
(* C32                                                                     *)
(***************************************************************************)
\* what the walker's file branch resolves with once the payload of p has
\* resolved: the payload's mapping, or the one entry built from the filename
\* the payload resolved with
OutcomeOfPayload(p) ==
  IF revision = "hashwalker" THEN inv[p].plMap
  ELSE ResultEntry(p, inv[p].plName, config.commonPathLength)

\* C32: when the path of the top-level walk is a regular file, nothing is
\* listed and no further invocation is started, the payload is invoked
\* exactly once, on that path, and the walk resolves exactly when the payload
\* has resolved, with the payload's result, and rejects exactly when the
\* payload has rejected, with the payload's error unchanged.
C32_FileInput ==
  (WalkStarted /\ inv[config.input].kind = "file") =>
    LET top == inv[config.input]
    IN /\ DOMAIN inv = {config.input}
       /\ top.readdirCalls = 0
       /\ top.payloadCalls = 1
       /\ top.state = "resolved" <=> top.plState = "resolved"
       /\ top.state = "rejected" <=> top.plState = "rejected"
       /\ top.state = "resolved" =>
            /\ top.value = OutcomeOfPayload(config.input)
            /\ top.resolveCalls = 1 /\ top.rejectCalls = 0
       /\ top.state = "rejected" =>
            /\ top.error = top.plError
            /\ top.error \in {BusterHashError(config.input),
                              ThrownError(config.input),
                              BusterFileSystemError(config.input)}
            /\ top.rejectCalls = 1 /\ top.resolveCalls = 0

\* C32 witness: the input is a file and its hashing failed, so that the walk
\* rejected with the BusterHashError of the payload.
C32_Witness ==
  /\ WalkStarted
  /\ inv[config.input].kind = "file"
  /\ inv[config.input].payloadCalls = 1
  /\ inv[config.input].state = "rejected"
  /\ inv[config.input].error = BusterHashError(config.input)

(***************************************************************************)
(* C33                                                                     *)
(***************************************************************************)
\* what the new filename has between the dot that follows the base name and
\* the extension
InsertedPart ==
  LET n == Len(call.result) - Len(call.filename) - 1
      last == Len(call.result) - Len(extname(call.filename))
  IN SubSeq(call.result, last - n + 1, last)

\* C33: for every hashLength of at least 1 the part inserted into the
\* filename is the first min(hashLength, digest length) characters of the
\* digest: the first hashLength characters when hashLength is at most the
\* digest's length, and the full digest when hashLength is at least the
\* digest's length.
C33_InsertedDigest ==
  (call.fn = "determineNewFilename" /\ call.done /\ call.hashLength >= 1) =>
     /\ Len(InsertedPart) = Min(call.hashLength, Len(call.fileHash))
     /\ call.hashLength <= Len(call.fileHash) =>
          InsertedPart = SubSeq(call.fileHash, 1, call.hashLength)
     /\ call.hashLength >= Len(call.fileHash) => InsertedPart = call.fileHash
     /\ call.result[Len(call.result) - Len(extname(call.filename))
                      - Len(InsertedPart)] = "."

\* C33 witness: a hashLength beyond the length of the digest, and the full
\* digest in the new filename.
C33_Witness ==
  /\ call.fn = "determineNewFilename" /\ call.done
  /\ call.hashLength > Len(call.fileHash)
  /\ InsertedPart = call.fileHash
  /\ extname(call.filename) # <<>>

(***************************************************************************)
(* State machine of the materializer, called twice                         *)
(***************************************************************************)
\* what fs/promises copyFile and rename may meet: "ok", or "denied" for a
\* file system that refuses the operation
FsAnswers == {"ok", "denied"}

\* a materializer that resolves at once when the destination is there
createHashedFile_skipsExisting(c) ==
  IF c.mode \notin {MODE_COPY, MODE_RENAME}
    THEN [c EXCEPT !.state = "rejected",
                   !.error = BusterFileSystemError(c.source)]
  ELSE IF c.destination \in FilePaths(disk)
    THEN [c EXCEPT !.state = "resolved", !.value = c.destination]
  ELSE [c EXCEPT !.state = "pending", !.fsCalls = @ + 1]

\* createHashedFile(source, destination, mode) up to its first I/O: an
\* unknown mode rejects at once, otherwise copyFile or renameFile have
\* called fs/promises copyFile or rename
createHashedFile(c) ==
  IF c.mode \notin {MODE_COPY, MODE_RENAME}
    THEN [c EXCEPT !.state = "rejected",
                   !.error = BusterFileSystemError(c.source)]
  ELSE [c EXCEPT !.state = "pending", !.fsCalls = @ + 1]

\* a call of the materializer that has not started yet
NewMaterializerCall(source, destination, mode, fs) ==
  [fn |-> "createHashedFile", source |-> source, destination |-> destination,
   mode |-> mode, fs |-> fs, run |-> 1, state |-> "idle", value |-> <<>>,
   error |-> NoError, fsCalls |-> 0, after |-> {}]

\* createHashedFile has been called for a file of the tree, with the name
\* derived from its digest or the name of another file as destination
MaterializerInit ==
  /\ disk \in {KnownDisk(tree) : tree \in Trees}
  /\ \E source \in FilePaths(disk), mode \in Modes, fs \in FsAnswers :
       \E destination \in
            {determineNewFilename(source, md5(ContentOf(disk, source)), 2)}
              \cup (FilePaths(disk) \ {source}) :
         call = createHashedFile(
                  NewMaterializerCall(source, destination, mode, fs))
  /\ config = NoConfig
  /\ revision = "hashwalker"
  /\ inv = <<>>
  /\ faults = <<>>
  /\ main = NoMain

\* copyFile or rename done: .then(() => resolve(destination)), twice
FsDone ==
  /\ call.state = "pending"
  /\ call.fs = "ok"
  /\ call.source \in FilePaths(disk)
  /\ disk' = IF call.mode = MODE_COPY
                THEN fscopyFile(disk, call.source, call.destination)
                ELSE rename(disk, call.source, call.destination)
  /\ call' = [call EXCEPT !.state = "resolved", !.value = call.destination]
  /\ UNCHANGED <<config, revision, inv, faults, main>>

\* copyFile or rename failed, as they do for a source that does not exist:
\* .catch((err) => reject(new BusterFileSystemError(...))), handed on by
\* createHashedFile
FsFailed ==
  /\ call.state = "pending"
  /\ call.fs = "denied" \/ call.source \notin FilePaths(disk)
  /\ call' = [call EXCEPT !.state = "rejected",
                          !.error = BusterFileSystemError(call.source)]
  /\ UNCHANGED <<config, revision, inv, faults, main, disk>>

\* after a success createHashedFile is called again with the same source,
\* destination and mode
CallAgain ==
  /\ call.run = 1
  /\ call.state = "resolved"
  /\ \E fs \in FsAnswers :
       call' = createHashedFile([call EXCEPT !.run = 2, !.fs = fs,
                                             !.value = <<>>, !.fsCalls = 0,
                                             !.after = disk.files])
  /\ UNCHANGED <<config, revision, inv, faults, main, disk>>

MaterializerNext ==
  \/ FsDone
  \/ FsFailed
  \/ CallAgain

MaterializerSpec == MaterializerInit /\ [][MaterializerNext]_vars

(***************************************************************************)
(* C34                                                                     *)
(***************************************************************************)
\* the second call of the materializer has settled on a file system that
\* refuses nothing
SecondRunSettled ==
  /\ call.fn = "createHashedFile"
  /\ call.run = 2
  /\ call.fs = "ok"
  /\ call.state \in {"resolved", "rejected"}

\* C34: when the materializer is called again with the same source and
\* destination after a success, in copy mode the second call resolves with
\* the destination and leaves the files and contents the first call left; in
\* rename mode the second call rejects with a BusterFileSystemError, the
\* source being gone, after a single attempt and without changing a file.
C34_SecondRun ==
  /\ (call.fn = "createHashedFile" /\ call.run = 2) => call.fsCalls = 1
  /\ SecondRunSettled =>
       /\ disk.files = call.after
       /\ call.mode = MODE_COPY =>
            /\ call.state = "resolved"
            /\ call.value = call.destination
            /\ {call.source, call.destination} \subseteq FilePaths(disk)
            /\ ContentOf(disk, call.destination) = ContentOf(disk, call.source)
       /\ call.mode = MODE_RENAME =>
            /\ call.state = "rejected"
            /\ call.error = BusterFileSystemError(call.source)
            /\ call.source \notin FilePaths(disk)
            /\ call.destination \in FilePaths(disk)

\* C34 witness: the second rename of a file has been rejected.
C34_Witness ==
  /\ SecondRunSettled
  /\ call.mode = MODE_RENAME
  /\ call.state = "rejected"
  /\ call.destination \in FilePaths(disk)

(***************************************************************************)
(* State machine of the walk over a tree with a symbolic link              *)
(***************************************************************************)
\* the entries below the input directory /r: a file beside a link to /r, a
\* file beside a link to /r/sub, and a tree without a link
LinkTrees ==
  {{<<<<"/", "r", "/", "a", ".", "j", "s">>, "x">>,
    <<<<"/", "r", "/", "l">>, LinkToParent>>},
   {<<<<"/", "r", "/", "s", "u", "b", "/", "b", ".", "c", "s", "s">>, "y">>,
    <<<<"/", "r", "/", "s", "u", "b", "/", "l">>, LinkToParent>>},
   {<<<<"/", "r", "/", "a", ".", "j", "s">>, "x">>,
    <<<<"/", "r", "/", "s", "u", "b", "/", "b", ".", "c", "s", "s">>, "y">>}}

\* hashWalker has called stat() on the input
LinkInit ==
  /\ disk \in {KnownDisk(tree) : tree \in LinkTrees}
  /\ config \in [input : {Input}, extensions : {defaultExtensions},
                 hashLength : HashLengths,
                 commonPathLength : {Len(Input) + Len(Sep)},
                 mode : {MODE_COPY, MODE_RENAME},
                 outFile : {pathresolve(Input, defaultOutFile)}]
  /\ revision \in Revisions
  /\ inv = (Input :> NewInvocation(<<>>))
  /\ faults = <<>>
  /\ main = NoMain
  /\ call = NoCall

\* stat(fileObject) rejected: there is no entry at the path any more
StatMissing(p) ==
  /\ ~ExistsOnDisk(disk, p)
  /\ StatFailed(p)

\* the hash stream failed: there is no file at the path any more
HashMissing(p) ==
  /\ realpath(disk, p) \notin RegularFiles(disk)
  /\ HashFailed(p)

\* copyFile or rename failed: there is no file at the path any more
CreateMissing(p) ==
  /\ realpath(disk, p) \notin RegularFiles(disk)
  /\ CreateFailed(p)

LinkNext ==
  \/ \E p \in DOMAIN inv : StatDone(p)
  \/ \E p \in DOMAIN inv : StatMissing(p)
  \/ \E p \in DOMAIN inv : ReaddirDone(p)
  \/ \E p \in DOMAIN inv : HashDone(p)
  \/ \E p \in DOMAIN inv : HashMissing(p)
  \/ \E p \in DOMAIN inv : CreateDone(p)
  \/ \E p \in DOMAIN inv : CreateMissing(p)

LinkSpec == LinkInit /\ [][LinkNext]_vars

(***************************************************************************)
(* C35                                                                     *)
(***************************************************************************)
\* the tree holds a link to an ancestor directory
Cyclic == Links(disk) # {}

\* the number of directories on the way from the input to p
Depth(p) == Cardinality({i \in (Len(Input) + 1)..Len(p) : p[i] = "/"})

\* C35 as stated: the walk over a tree with a link to an ancestor directory
\* never settles.
C35_Original == Cyclic => inv[Input].state = "pending"

\* C35 (amended): the walk over a tree with a link to an ancestor directory
\* never resolves and stays pending as long as no operation fails; every
\* directory it has listed through the link holds the link again and is
\* walked one level deeper; the walk over a tree without a link visits no
\* entry deeper than the files of the tree are.
C35_NeverResolves ==
  /\ Cyclic =>
       /\ ~Resolved(Input)
       /\ faults = <<>> => inv[Input].state = "pending"
       /\ Rejected(Input) => inv[Input].error = inv[faults[1].at].error
       /\ \A p \in DOMAIN inv :
            (inv[p].kind = "dir" /\ inv[p].pos = "none"
               /\ realpath(disk, p) \in {dirname(l) : l \in Links(disk)}) =>
               \E c \in Children(p) :
                 /\ realpath(disk, c) = realpath(disk, p)
                 /\ LinksFollowed(disk, c) = LinksFollowed(disk, p) + 1
                 /\ Depth(c) = Depth(p) + 1
  /\ ~Cyclic =>
       \A p \in DOMAIN inv :
         /\ LinksFollowed(disk, p) = 0
         /\ \E f \in RegularFiles(disk) : Depth(p) <= Depth(f)

\* C35 witness: the walk reached the input directory again through two
\* links and has not settled.
C35_Witness ==
  /\ Cyclic
  /\ inv[Input].state = "pending"
  /\ \E p \in DOMAIN inv :
       /\ LinksFollowed(disk, p) = 2
       /\ inv[p].kind = "dir"
       /\ \E f \in MaterializedFiles : LinksFollowed(disk, f) = 1

(***************************************************************************)
(* State machine of busterMain in a process that lives on                  *)
(***************************************************************************)
\* how often the SIGINT handler has run
SigintCount ==
  Cardinality({i \in DOMAIN main.settleCalls :
                 main.settleCalls[i] = <<"reject", EXIT_SIGINT>>})

\* the SIGINT handler runs after busterMain's promise has settled, as it
\* may where the caller does not leave the process: reject(EXIT_SIGINT) on
\* a settled promise
LateSigint ==
  /\ main.pos \notin {"none", "argv"}
  /\ main.state # "pending"
  /\ SigintCount < MaxSigints
  /\ main' = MainReject(main, EXIT_SIGINT)
  /\ UNCHANGED <<config, revision, inv, faults, disk, call>>

SignalNext ==
  \/ MainNext
  \/ LateSigint

SignalSpec == MainInit /\ [][SignalNext]_vars

(***************************************************************************)
(* C36                                                                     *)
(***************************************************************************)
\* the SIGINT handler runs in this step
SigintHandled ==
  main'.settleCalls = Append(main.settleCalls, <<"reject", EXIT_SIGINT>>)

\* C36: when the SIGINT handler runs while busterMain's promise is pending,
\* the promise is rejected with 130; once the promise has settled, by the
\* handler or by the chain, no later step of the chain and no later SIGINT
\* changes its state or its code.
C36_FirstSettlementStays ==
  [][/\ (SigintHandled /\ main.state = "pending") =>
          main'.state = "rejected" /\ main'.code = EXIT_SIGINT
     /\ (main.pos # "argv" /\ main.state # "pending") =>
          main'.state = main.state /\ main'.code = main.code
     /\ (SigintHandled /\ main.state # "pending") =>
          /\ main'.pos = main.pos
          /\ inv' = inv
    ]_vars

\* C36 witness: SIGINT was caught during the walk, the walk and the writing
\* of the manifest went on and succeeded, a second SIGINT came, and the code
\* is 130.
C36_Witness ==
  /\ main.state = "rejected"
  /\ main.code = EXIT_SIGINT
  /\ main.pos = "done"
  /\ main.settleCalls = <<<<"reject", EXIT_SIGINT>>, <<"resolve", EXIT_SUCCESS>>,
                          <<"reject", EXIT_SIGINT>>>>

(***************************************************************************)
(* State machine of the earliest walker, hashWalker(config,                *)
(* commonPathLength)                                                       *)
(***************************************************************************)
\* the two revisions of the earliest walker: the one that only hashes the
\* files, and the one that creates the hashed files as well
OldRevisions == {"hashes", "creates"}

\* the call hashWalker(config) of the caller: one entry per call of
\* hashWalker and per entry of a listing, identified by the names that led
\* to it
RootCall == <<Input>>

\* an entry of a listing: stat(file) is under way for the path the name was
\* resolved to
NewEntry(parent, name, path) ==
  [parent |-> parent, name |-> name, path |-> path, listed |-> <<>>,
   pos |-> "stat", kind |-> "unknown",
   state |-> "none", value |-> {}, error |-> NoError,
   nEntries |-> 0, pending |-> 0, results |-> {},
   resolveCalls |-> 0, rejectCalls |-> 0]

\* hashWalker(config, commonPathLength): readdir(config.rootDirectory) is
\* under way
hashWalker(entry, cfg) ==
  [entry EXCEPT !.kind = "dir", !.pos = "readdir", !.state = "pending",
                !.listed = cfg.rootDirectory]

\* .finally(() => { if (--pending === 0) return resolve(results); }) of the
\* hashWalker call q
EntryFinished(iv, q) ==
  LET left == iv[q].pending - 1
      counted == [iv EXCEPT ![q].pending = left]
  IN IF left = 0 THEN Resolve(counted, q, counted[q].results) ELSE counted

\* .catch((err) => { if (!(err instanceof BusterHashWalkerFilterError))
\* return reject(err); }) and the .finally behind it
EntryFailed(iv, q, err) == EntryFinished(Reject(iv, q, err), q)

OldInit ==
  /\ config \in [rootDirectory : {Input}, extensions : {defaultExtensions},
                 hashLength : HashLengths, mode : {MODE_COPY, "move"}]
  /\ revision \in OldRevisions
  /\ inv = (RootCall :> hashWalker(NewEntry(<<>>, Input, Input), config))
  /\ faults = <<>>
  /\ main = NoMain
  /\ disk = UnknownDisk
  /\ call = NoCall

\* readdir(config.rootDirectory) resolved with fileList: every name is made
\* absolute with pathresolve(config.rootDirectory, file), read from the
\* config object at this moment, and stat'ed
OldReaddirDone(i) ==
  /\ inv[i].pos = "readdir"
  /\ \E fileList \in {l \in SUBSET Names :
                         Cardinality(DOMAIN inv) + Cardinality(l) <= MaxNodes} :
       LET children == {Append(i, file) : file \in fileList}
           listed == [Idle(inv, i) EXCEPT ![i].nEntries = Cardinality(fileList),
                                          ![i].pending = Cardinality(fileList)]
       IN inv' = IF fileList = {}
                   THEN Resolve(listed, i, listed[i].results)
                   ELSE [c \in DOMAIN inv \cup children |->
                           IF c \in children
                             THEN NewEntry(i, c[Len(c)],
                                           pathresolve(config.rootDirectory,
                                                       c[Len(c)]))
                             ELSE listed[c]]
  /\ UNCHANGED <<config, revision, faults, main, disk, call>>

\* readdir(config.rootDirectory) rejected
OldReaddirFailed(i) ==
  /\ inv[i].pos = "readdir"
  /\ inv' = Reject(Idle(inv, i), i,
                    BusterHashWalkerError("readdir", config.rootDirectory))
  /\ faults' = Append(faults, ErrnoException("readdir", inv[i].listed))
  /\ UNCHANGED <<config, revision, main, disk, call>>

\* stat(file) resolved: a directory is walked by hashWalker(
\* Object.assign(config, { rootDirectory: file }), commonPathLength), a file
\* goes through filterByExtension and, if it passes, is hashed
OldStatDone(i) ==
  /\ inv[i].pos = "stat"
  /\ \E isDirectory \in BOOLEAN :
       IF isDirectory
         THEN /\ config' = [config EXCEPT !.rootDirectory = inv[i].path]
              /\ inv' = [inv EXCEPT ![i] = hashWalker(inv[i], config')]
         ELSE /\ config' = config
              /\ inv' = IF filterByExtension(inv[i].path, config.extensions)
                          THEN [inv EXCEPT ![i].kind = "file", ![i].pos = "hash"]
                          ELSE EntryFinished([Idle(inv, i) EXCEPT
                                                ![i].kind = "file"],
                                             inv[i].parent)
  /\ UNCHANGED <<revision, faults, main, disk, call>>

\* stat(file) rejected
OldStatFailed(i) ==
  /\ inv[i].pos = "stat"
  /\ inv' = Reject(Idle(inv, i), inv[i].parent,
                    BusterHashWalkerError("stat", inv[i].path))
  /\ faults' = Append(faults, ErrnoException("stat", inv[i].path))
  /\ UNCHANGED <<config, revision, main, disk, call>>

\* hashFileContent resolved: the hash is logged, or the new filename is
\* derived and createHashedFile is called
OldHashDone(i) ==
  /\ inv[i].pos = "hash"
  /\ inv' = IF revision = "hashes"
              THEN EntryFinished(Idle(inv, i), inv[i].parent)
            ELSE IF config.mode \in {MODE_COPY, MODE_RENAME}
              THEN [inv EXCEPT ![i].pos = "create"]
            ELSE EntryFailed(Idle(inv, i), inv[i].parent,
                             BusterHashWalkerError("create", inv[i].path))
  /\ UNCHANGED <<config, revision, faults, main, disk, call>>

\* hashFileContent rejected
OldHashFailed(i) ==
  /\ inv[i].pos = "hash"
  /\ inv' = EntryFailed(Idle(inv, i), inv[i].parent,
                         BusterHashWalkerError("hash", inv[i].path))
  /\ faults' = Append(faults, ErrnoException("hash", inv[i].path))
  /\ UNCHANGED <<config, revision, main, disk, call>>

\* createHashedFile resolved
OldCreateDone(i) ==
  /\ inv[i].pos = "create"
  /\ inv' = EntryFinished(Idle(inv, i), inv[i].parent)
  /\ UNCHANGED <<config, revision, faults, main, disk, call>>

\* createHashedFile rejected
OldCreateFailed(i) ==
  /\ inv[i].pos = "create"
  /\ inv' = EntryFailed(Idle(inv, i), inv[i].parent,
                         BusterHashWalkerError("create", inv[i].path))
  /\ faults' = Append(faults, ErrnoException("copyFile", inv[i].path))
  /\ UNCHANGED <<config, revision, main, disk, call>>

OldNext ==
  \/ \E i \in DOMAIN inv : OldReaddirDone(i)
  \/ \E i \in DOMAIN inv : OldReaddirFailed(i)
  \/ \E i \in DOMAIN inv : OldStatDone(i)
  \/ \E i \in DOMAIN inv : OldStatFailed(i)
  \/ \E i \in DOMAIN inv : OldHashDone(i)
  \/ \E i \in DOMAIN inv : OldHashFailed(i)
  \/ \E i \in DOMAIN inv : OldCreateDone(i)
  \/ \E i \in DOMAIN inv : OldCreateFailed(i)

OldSpec == OldInit /\ [][OldNext]_vars

(***************************************************************************)
(* C37                                                                     *)
(***************************************************************************)
\* C37: every entry name a listing of directory D returned has been
\* resolved to the path directly under D, which is the path that is
\* stat'ed and processed.
C37_ResolvedUnderListedDirectory ==
  \A i \in DOMAIN inv :
    inv[i].parent # <<>> =>
      inv[i].path = pathresolve(inv[inv[i].parent].listed, inv[i].name)

(***************************************************************************)
(* C38                                                                     *)
(***************************************************************************)
\* the directories the files of the disk are in, below the input
DirectoriesOnDisk ==
  UNION {{SubSeq(f, 1, i - 1) :
            i \in {j \in 1..Len(f) : f[j] = "/" /\ j > Len(config.input)}} :
         f \in RegularFiles(disk)}

\* C38: every entry has one invocation of the walker, with one stat; a
\* directory is listed once and never handed to the payload, any other
\* entry is handed to the payload once and never listed; and when the first
\* walk over a tree has resolved, every directory of the tree has been
\* visited as a directory and every file is one the walk visited or the
\* hashed file of one.
C38_ExactlyOnce ==
  /\ \A p \in DOMAIN inv :
       /\ inv[p].kind = "unknown" =>
            inv[p].pos = "stat" /\ inv[p].readdirCalls = 0
                                /\ inv[p].payloadCalls = 0
       /\ inv[p].kind = "dir" =>
            inv[p].readdirCalls = 1 /\ inv[p].payloadCalls = 0
                                    /\ inv[p].hashCalls = 0
       /\ inv[p].kind = "file" =>
            inv[p].payloadCalls = 1 /\ inv[p].readdirCalls = 0
                                    /\ inv[p].hashCalls <= 1
                                    /\ inv[p].createCalls <= 1
       /\ p # config.input =>
            /\ inv[p].parent \in DOMAIN inv
            /\ inv[inv[p].parent].kind = "dir"
            /\ p = pathresolve(inv[p].parent, basename1(p))
  /\ (WalkResolved /\ main.run = 1) =>
       /\ \A d \in DirectoriesOnDisk :
            d \in DOMAIN inv /\ inv[d].kind = "dir"
       /\ \A f \in RegularFiles(disk) \ {config.outFile} :
            \/ f \in DOMAIN inv /\ inv[f].kind = "file"
            \/ \E g \in MaterializedFiles : inv[g].plName = f
       /\ \A p \in DOMAIN inv :
            inv[p].kind = "file" => inv[p].plState = "resolved"

\* C38 witness: the walk over the tree with a subdirectory and a file
\* without a configured extension has resolved.
C38_Witness ==
  /\ WalkResolved
  /\ main.run = 1
  /\ \E d \in DOMAIN inv :
       /\ d # config.input
       /\ inv[d].kind = "dir"
       /\ inv[d].readdirCalls = 1
       /\ \E f, g \in Children(d) :
            /\ inv[f].createCalls = 1
            /\ inv[g].payloadCalls = 1 /\ inv[g].hashCalls = 0

(***************************************************************************)
(* C39                                                                     *)
(***************************************************************************)
\* the hashed files this walk has created
HashedCopies == {inv[g].plName : g \in MaterializedFiles}

\* C39: in one walk every hashed file lies in the directory of its source,
\* no listing of that directory is outstanding once the file is created,
\* and no visited entry is a hashed file the same walk created.
C39_NoHashedCopyVisited ==
  main.run = 1 =>
    /\ \A g \in MaterializedFiles : dirname(inv[g].plName) = dirname(g)
    /\ \A d \in DOMAIN inv :
         inv[d].pos = "readdir" =>
           \A h \in HashedCopies :
             realpath(disk, dirname(h)) # realpath(disk, d)
    /\ \A p \in DOMAIN inv :
         \A h \in HashedCopies : realpath(disk, p) # realpath(disk, h)

(***************************************************************************)
(* C40                                                                     *)
(***************************************************************************)
\* the directory invocations whose listing has arrived
Listed(p) ==
  /\ inv[p].kind = "dir"
  /\ inv[p].pos = "none"
  /\ \A i \in DOMAIN faults : faults[i] # ErrnoException("readdir", p)

ResolvedChildren(p) == {c \in Children(p) : Resolved(c)}

\* C40: in a directory invocation with N entries, pending lies in 0..N and
\* is N minus the number of children that have resolved; resolve has been
\* invoked, once, exactly if pending is 0, and if a child has rejected then
\* pending is not 0, resolve was not invoked and the invocation is rejected.
C40_PendingCounter ==
  \A p \in DOMAIN inv :
    Listed(p) =>
      /\ Cardinality(Children(p)) = inv[p].nEntries
      /\ inv[p].pending \in 0..inv[p].nEntries
      /\ inv[p].pending = inv[p].nEntries - Cardinality(ResolvedChildren(p))
      /\ inv[p].resolveCalls = IF inv[p].pending = 0 THEN 1 ELSE 0
      /\ (\E c \in Children(p) : Rejected(c)) =>
           /\ inv[p].pending > 0
           /\ inv[p].resolveCalls = 0
           /\ Rejected(p)

\* C40 witness: a directory with two entries of which one has rejected and
\* the other, a directory whose own counter reached 0, has resolved.
C40_Witness ==
  \E p, q \in DOMAIN inv :
    /\ Listed(p) /\ Listed(q)
    /\ q \in ResolvedChildren(p)
    /\ inv[q].nEntries > 0 /\ inv[q].pending = 0 /\ inv[q].resolveCalls = 1
    /\ inv[p].nEntries = 2 /\ inv[p].pending = 1
    /\ \E c \in Children(p) : Rejected(c)

====
